---- MODULE Spec2Model ----
(***************************************************************************)
(* Model of the jj-vsc domain layer (domain/JjRepository.ts):              *)
(*   - parseStatusOutput / extractNewPathFromRename, the status parser     *)
(*   - execJj, the process runner and its failure classification           *)
(*   - JjRepository, the facade whose methods call execJj                  *)
(*   - toResourceState and JjScmProvider (adapters/scmProvider.ts)         *)
(*   - JjTreeDataProvider and debounce (ui/commit_view.ts)                 *)
(*   - activate (extension.ts)                                             *)
(* A JavaScript string is a sequence of one-character strings; indices in  *)
(* the string helpers are 0-based like the JavaScript they stand for.      *)
(***************************************************************************)
EXTENDS Integers, Sequences, FiniteSets, TLC

VARIABLES
    output,       \* the text handed to parseStatusOutput
    parsePc,      \* "off" | "ready" | "done"
    parseResult,  \* outcome of the parseStatusOutput call
    execArgs,     \* the args execJj was called with
    execPc,       \* "off" | "running" | "settled" | "done"
    procEvent,    \* what became of the jj process (the environment's fact)
    proc,         \* how the execFileAsync promise settled
    execResult,   \* outcome of the execJj call
    warnings,     \* what was written with console.warn
    root,         \* JjRepository.root, the working-copy root
    method,       \* the facade method that was called
    arg,          \* its argument (message, branch or filePath)
    facadePc,     \* "off" | "idle" | "awaitExec" | "awaitFallback" | "done"
    spawned,      \* the args of every execFile spawn of the call, in order
    caught,       \* `err` of the catch block of listBranches
    facadeResult, \* outcome of the facade call
    errorsLogged, \* what was written with console.error
    scmPc,        \* "off" | "on": a JjScmProvider exists
    refreshing,   \* JjScmProvider.refreshing
    autoRefreshEnabled, \* JjScmProvider.autoRefreshEnabled
    lastRefreshError,   \* whether JjScmProvider.lastRefreshError is set
    resourceStates,     \* workingTree.resourceStates
    scmCount,     \* sourceControl.count
    tasks,        \* the calls of refresh() and commit(), in call order
    statusStarted,      \* how many repo.status() calls the provider has made
    scmLogged,    \* what the provider wrote with notificationService.log
    stateFile,    \* the FileStatus handed to toResourceState
    statePc,      \* "off" | "call" | "done"
    stateResult,  \* what the toResourceState call returned or threw
    treePc,       \* "off" | "on": a JjTreeDataProvider exists
    cachedStatus, \* JjTreeDataProvider.cachedStatus: 0 (undefined) or a promise
    statusPromises,     \* the promises getStatus() made of repo.status()
    childrenCalls,      \* the getChildren() calls, in call order
    statusSinceRefresh, \* repo.status() calls since the last refresh()
    debouncePc,   \* "off" | "on": the debounced refresh is installed
    now,          \* the time, in milliseconds
    timers,       \* the timers that are set and have not run
    timeout,      \* debounce's `timeout`: the handle of the last timer set
    lastEvent,    \* the time of the last file event
    firedSinceEvent,    \* runs of the debounced function since that event
    activatePc,   \* where activate() stands
    rootPath,     \* the first workspace folder, <<>> if there is none
    jjExists,     \* whether rootPath holds a .jj directory
    verifyResult, \* how the awaited jjRepo.verify() ended
    contexts,     \* the values 'jj-vsc.isJjRepository' was set to, in order
    constructed,  \* the providers built, in order
    registrations,      \* the identifiers registerCommand was called with
    nextCommand,  \* the next command activate registers itself
    shown         \* the messages shown to the user

parseVars == <<output, parsePc, parseResult>>

execVars == <<execArgs, execPc, procEvent, proc, execResult, warnings>>

facadeVars == <<root, method, arg, facadePc, spawned, caught, facadeResult, errorsLogged>>

scmVars ==
    <<scmPc, refreshing, autoRefreshEnabled, lastRefreshError, resourceStates,
      scmCount, tasks, statusStarted, scmLogged>>

stateVars == <<stateFile, statePc, stateResult>>

treeVars ==
    <<treePc, cachedStatus, statusPromises, childrenCalls, statusSinceRefresh>>

debounceVars == <<debouncePc, now, timers, timeout, lastEvent, firedSinceEvent>>

activateVars ==
    <<activatePc, rootPath, jjExists, verifyResult, contexts, constructed,
      registrations, nextCommand, shown>>

uiVars == <<stateVars, treeVars, debounceVars, activateVars>>

vars ==
    <<output, parsePc, parseResult, execArgs, execPc, procEvent, proc, execResult,
      warnings, root, method, arg, facadePc, spawned, caught, facadeResult,
      errorsLogged, scmPc, refreshing, autoRefreshEnabled, lastRefreshError,
      resourceStates, scmCount, tasks, statusStarted, scmLogged, uiVars>>

\* ------------------------------------------------------------------
\* Bounds of the model
\* ------------------------------------------------------------------
MaxParseTokens == 5

MaxLineTokens == 5

MaxFieldTokens == 5

MaxStderrTokens == 3

MaxWarnTokens == 1

MaxStdoutTokens == 2

MaxExitCode == 2

MaxArgTokens == 2

MaxDiffTokens == 4

MaxFacadeStderrTokens == 2

MaxListTokens == 5

MaxScmCalls == 3

MaxPathTokens == 3

MaxTreeCalls == 3

MaxTime == 3000

MaxLiveCalls == 3

Quantum == 100

\* ------------------------------------------------------------------
\* JavaScript string primitives
\* ------------------------------------------------------------------
Min(S) == CHOOSE x \in S : \A y \in S : x <= y

Max(S) == CHOOSE x \in S : \A y \in S : x >= y

\* the white space String.prototype.trim removes (those the inputs can hold)
WhiteSpace == {" ", "\n", "\r", "\t"}

\* s.trim()
Trim(s) ==
    LET keep == {i \in 1..Len(s) : s[i] \notin WhiteSpace}
    IN  IF keep = {} THEN <<>> ELSE SubSeq(s, Min(keep), Max(keep))

\* s.indexOf(pat): 0-based position of the first occurrence, or -1
IndexOf(s, pat) ==
    LET hits == {i \in 0..(Len(s) - Len(pat)) : SubSeq(s, i + 1, i + Len(pat)) = pat}
    IN  IF hits = {} THEN -1 ELSE Min(hits)

\* s.includes(pat)
Includes(s, pat) == IndexOf(s, pat) # -1

\* s.startsWith(pat)
StartsWith(s, pat) == Len(s) >= Len(pat) /\ SubSeq(s, 1, Len(pat)) = pat

\* s.slice(from) for from >= 0
SliceFrom(s, from) == SubSeq(s, from + 1, Len(s))

\* s.slice(from, to) for 0 <= from, 0 <= to
Slice(s, from, to) == SubSeq(s, from + 1, IF to > Len(s) THEN Len(s) ELSE to)

RECURSIVE SplitLines(_)
\* s.split(/\r?\n/)
SplitLines(s) ==
    LET nl == IndexOf(s, <<"\n">>)
    IN  IF nl = -1 THEN <<s>>
        ELSE LET cut == IF nl > 0 /\ s[nl] = "\r" THEN nl - 1 ELSE nl
             IN  <<Slice(s, 0, cut)>> \o SplitLines(SliceFrom(s, nl + 1))

RECURSIVE SplitNl(_)
\* s.split('\n')
SplitNl(s) ==
    LET nl == IndexOf(s, <<"\n">>)
    IN  IF nl = -1 THEN <<s>>
        ELSE <<Slice(s, 0, nl)>> \o SplitNl(SliceFrom(s, nl + 1))

\* ------------------------------------------------------------------
\* Status parser
\* ------------------------------------------------------------------
Groups == {"modified", "added", "deleted", "moved"}

EmptySummary == [modified |-> <<>>, added |-> <<>>, deleted |-> <<>>, moved |-> <<>>]

FileStatus(path, status) == [path |-> path, status |-> status]

Arrow == <<"=", ">">>

JjEcho == <<"j", "j", " ">>

\* bug variant: the suffix after the closing brace is dropped
extractNewPathFromRename_NoSuffix(rawPath) ==
    LET start == IndexOf(rawPath, <<"{">>)
        end   == IndexOf(rawPath, <<"}">>)
    IN  IF start = -1 \/ end = -1 \/ end < start
        THEN LET arrow == IndexOf(rawPath, Arrow)
             IN  IF arrow # -1 THEN Trim(SliceFrom(rawPath, arrow + 2)) ELSE rawPath
        ELSE LET prefix   == Slice(rawPath, 0, start)
                 inner    == Slice(rawPath, start + 1, end)
                 arrowIdx == IndexOf(inner, Arrow)
             IN  IF arrowIdx = -1 THEN rawPath
                 ELSE prefix \o Trim(SliceFrom(inner, arrowIdx + 2))

\* bug variant: the plain form keeps the text before the arrow (the old path)
extractNewPathFromRename_OldPath(rawPath) ==
    LET start == IndexOf(rawPath, <<"{">>)
        end   == IndexOf(rawPath, <<"}">>)
    IN  IF start = -1 \/ end = -1 \/ end < start
        THEN LET arrow == IndexOf(rawPath, Arrow)
             IN  IF arrow # -1 THEN Trim(Slice(rawPath, 0, arrow)) ELSE rawPath
        ELSE LET prefix   == Slice(rawPath, 0, start)
                 inner    == Slice(rawPath, start + 1, end)
                 suffix   == SliceFrom(rawPath, end + 1)
                 arrowIdx == IndexOf(inner, Arrow)
             IN  IF arrowIdx = -1 THEN rawPath
                 ELSE prefix \o Trim(SliceFrom(inner, arrowIdx + 2)) \o suffix

extractNewPathFromRename(rawPath) ==
    LET start == IndexOf(rawPath, <<"{">>)
        end   == IndexOf(rawPath, <<"}">>)
    IN  IF start = -1 \/ end = -1 \/ end < start
        THEN \* simple rename format without braces
             LET arrow == IndexOf(rawPath, Arrow)
             IN  IF arrow # -1 THEN Trim(SliceFrom(rawPath, arrow + 2)) ELSE rawPath
        ELSE LET prefix   == Slice(rawPath, 0, start)
                 inner    == Slice(rawPath, start + 1, end)
                 suffix   == SliceFrom(rawPath, end + 1)
                 arrowIdx == IndexOf(inner, Arrow)
             IN  IF arrowIdx = -1 THEN rawPath  \* unexpected format
                 ELSE prefix \o Trim(SliceFrom(inner, arrowIdx + 2)) \o suffix

\* summary.<group>.push(entry)
Push(summary, group, entry) ==
    [kind |-> "next", summary |-> [summary EXCEPT ![group] = Append(@, entry)]]

\* bug variant: an unknown status code is an error
unknownStatusCode_Throws(summary, line) ==
    [kind |-> "throw", summary |-> summary]

\* the default branch of the switch: warn and go on
unknownStatusCode(summary, line) ==
    [kind |-> "next", summary |-> summary]

\* bug variant: a rename is filed under "modified"
statusCase_RenameAsModified(summary, code, rest, line) ==
    CASE code = "A" -> Push(summary, "added", FileStatus(rest, "added"))
      [] code = "D" -> Push(summary, "deleted", FileStatus(rest, "deleted"))
      [] code = "M" -> Push(summary, "modified", FileStatus(rest, "modified"))
      [] code = "R" -> Push(summary, "modified",
                            FileStatus(extractNewPathFromRename(rest), "modified"))
      [] OTHER      -> unknownStatusCode(summary, line)

\* switch (code) { ... }
statusCase(summary, code, rest, line) ==
    CASE code = "A" -> Push(summary, "added", FileStatus(rest, "added"))
      [] code = "D" -> Push(summary, "deleted", FileStatus(rest, "deleted"))
      [] code = "M" -> Push(summary, "modified", FileStatus(rest, "modified"))
      [] code = "R" -> Push(summary, "moved",
                            FileStatus(extractNewPathFromRename(rest), "moved"))
      [] OTHER      -> unknownStatusCode(summary, line)

\* one iteration of the for-loop of parseStatusOutput
parseLine(summary, rawLine) ==
    LET line == Trim(rawLine)
    IN  IF line = <<>> \/ StartsWith(line, JjEcho)
        THEN [kind |-> "next", summary |-> summary]   \* continue
        ELSE statusCase(summary, line[1], Trim(SliceFrom(line, 1)), line)

RECURSIVE parseLines(_, _)
\* the for-loop over the lines, left to right; a throw ends it
parseLines(summary, lines) ==
    IF lines = <<>> THEN [kind |-> "return", value |-> summary]
    ELSE LET step == parseLine(summary, Head(lines))
         IN  IF step.kind = "throw" THEN [kind |-> "throw", value |-> step.summary]
             ELSE parseLines(step.summary, Tail(lines))

\* bug variant: the text is split on CRLF only
splitStatusLines_CRLFOnly(text) ==
    LET RECURSIVE go(_)
        go(s) == LET at == IndexOf(s, <<"\r", "\n">>)
                 IN  IF at = -1 THEN <<s>>
                     ELSE <<Slice(s, 0, at)>> \o go(SliceFrom(s, at + 2))
    IN  go(text)

\* output.split(/\r?\n/)
splitStatusLines(text) == SplitLines(text)

parseStatusOutput(text) == parseLines(EmptySummary, splitStatusLines(text))

\* ------------------------------------------------------------------
\* Inputs
\* ------------------------------------------------------------------
RECURSIVE Flatten(_)
Flatten(tokens) ==
    IF Len(tokens) = 0 THEN <<>> ELSE Head(tokens) \o Flatten(Tail(tokens))

TokenStrings(tokens, max) ==
    UNION {{Flatten(ts) : ts \in [1..n -> tokens]} : n \in 0..max}

\* pieces of `jj diff -s` output: the status codes, a path character that
\* is no status code, a blank and a line end
ParseTokens ==
    {<<"A">>, <<"D">>, <<"M">>, <<"R">>, <<"p">>, <<" ">>, <<"\n">>}

\* pieces of `jj diff -s` output as it comes with CRLF line ends and with
\* the echoed command: two status codes, a path character, a blank, LF,
\* CR and the echo prefix
LineTokens ==
    {<<"A">>, <<"M">>, <<"p">>, <<" ">>, <<"\n">>, <<"\r">>, JjEcho}

\* pieces of the path field of a rename line
FieldTokens == {<<"a">>, <<"b">>, <<" ">>, <<"{">>, <<"}">>, Arrow}

\* ------------------------------------------------------------------
\* Process runner: execJj
\* ------------------------------------------------------------------
\* an optional value (undefined or a value)
None(dflt) == [def |-> FALSE, v |-> dflt]

Some(x) == [def |-> TRUE, v |-> x]

\* the `code` property of a rejection: null, an errno name or an exit code
CodeNull == [t |-> "null", s |-> "", n |-> 0]

CodeStr(name) == [t |-> "string", s |-> name, n |-> 0]

CodeNum(k) == [t |-> "number", s |-> "", n |-> k]

\* the stderr patterns of execJj and the messages it derives from them
NoSuchRevset ==
    <<"N", "o", " ", "s", "u", "c", "h", " ", "r", "e", "v", "s", "e", "t">>

ConcurrentModification ==
    <<"C", "o", "n", "c", "u", "r", "r", "e", "n", "t", " ", "m", "o", "d", "i", "f", "i", "c", "a", "t", "i", "o", "n">>

PermissionDenied ==
    <<"P", "e", "r", "m", "i", "s", "s", "i", "o", "n", " ", "d", "e", "n", "i", "e", "d">>

NotAValidRepo ==
    <<"n", "o", "t", " ", "a", " ", "v", "a", "l", "i", "d", " ", "J", "u", "j", "u", "t", "s", "u", " ", "r", "e", "p", "o", "s", "i", "t", "o", "r", "y">>

MsgInvalidRevision ==
    <<"I", "n", "v", "a", "l", "i", "d", " ", "r", "e", "v", "i", "s", "i", "o", "n", " ", "o", "r", " ", "b", "r", "a", "n", "c", "h", " ", "r", "e", "f", "e", "r", "e", "n", "c", "e">>

MsgModified ==
    <<"R", "e", "p", "o", "s", "i", "t", "o", "r", "y", " ", "w", "a", "s", " ", "m", "o", "d", "i", "f", "i", "e", "d", " ", "b", "y", " ", "a", "n", "o", "t", "h", "e", "r", " ", "p", "r", "o", "c", "e", "s", "s">>

MsgPermission ==
    <<"P", "e", "r", "m", "i", "s", "s", "i", "o", "n", " ", "d", "e", "n", "i", "e", "d", " ", "a", "c", "c", "e", "s", "s", "i", "n", "g", " ", "r", "e", "p", "o", "s", "i", "t", "o", "r", "y">>

MsgNotRepo ==
    <<"N", "o", "t", " ", "a", " ", "v", "a", "l", "i", "d", " ", "J", "u", "J", "u", "t", "s", "u", " ", "r", "e", "p", "o", "s", "i", "t", "o", "r", "y">>

MsgNotInstalled ==
    <<"J", "u", "J", "u", "t", "s", "u", " ", "(", "j", "j", ")", " ", "i", "s", " ", "n", "o", "t", " ", "i", "n", "s", "t", "a", "l", "l", "e", "d", " ", "o", "r", " ", "n", "o", "t", " ", "f", "o", "u", "n", "d", " ", "i", "n", " ", "P", "A", "T", "H">>

MsgTimedOut ==
    <<"J", "u", "J", "u", "t", "s", "u", " ", "c", "o", "m", "m", "a", "n", "d", " ", "t", "i", "m", "e", "d", " ", "o", "u", "t", " ", "a", "f", "t", "e", "r", " ", "3", "0", " ", "s", "e", "c", "o", "n", "d", "s">>

MsgExitCodePrefix ==
    <<"J", "u", "J", "u", "t", "s", "u", " ", "c", "o", "m", "m", "a", "n", "d", " ", "f", "a", "i", "l", "e", "d", " ", "w", "i", "t", "h", " ", "e", "x", "i", "t", " ", "c", "o", "d", "e", " ">>

MsgUnknown ==
    <<"U", "n", "k", "n", "o", "w", "n", " ", "e", "r", "r", "o", "r", " ", "e", "x", "e", "c", "u", "t", "i", "n", "g", " ", "j", "j", " ", "c", "o", "m", "m", "a", "n", "d">>

WarnPrefix ==
    <<"j", "j", " ", "c", "o", "m", "m", "a", "n", "d", " ", "w", "a", "r", "n", "i", "n", "g", ":", " ">>

Digits == <<"0", "1", "2", "3", "4", "5", "6", "7", "8", "9">>

RECURSIVE NumToString(_)
\* `${n}` for n >= 0
NumToString(n) ==
    IF n < 10 THEN <<Digits[n + 1]>>
    ELSE NumToString(n \div 10) \o <<Digits[(n % 10) + 1]>>

\* new JjExecutionError(message, command, args, stderr, exitCode, originalError)
JjExecutionError(message, command, args, stderr, exitCode, originalError) ==
    [type |-> "JjExecutionError", message |-> message, command |-> command,
     args |-> args, stderr |-> stderr, exitCode |-> exitCode,
     originalError |-> originalError]

Throw(error) == [kind |-> "throw", value |-> <<>>, error |-> error]

NoError == [type |-> "none"]

Return(value) == [kind |-> "return", value |-> value, error |-> NoError]

\* bug variant: "Concurrent modification" is looked for before "No such revset"
nonZeroExitMessage_Reordered(stderr, exitCode) ==
    IF stderr # <<>>
    THEN IF Includes(stderr, ConcurrentModification) THEN MsgModified
         ELSE IF Includes(stderr, NoSuchRevset) THEN MsgInvalidRevision
         ELSE IF Includes(stderr, PermissionDenied) THEN MsgPermission
         ELSE IF Includes(stderr, NotAValidRepo) THEN MsgNotRepo
         ELSE LET firstLine == SplitNl(Trim(stderr))[1]
              IN  IF firstLine # <<>> THEN firstLine
                  ELSE MsgExitCodePrefix \o NumToString(exitCode)
    ELSE MsgExitCodePrefix \o NumToString(exitCode)

\* the message of a non-zero exit, from stderr
nonZeroExitMessage(stderr, exitCode) ==
    IF stderr # <<>>
    THEN IF Includes(stderr, NoSuchRevset) THEN MsgInvalidRevision
         ELSE IF Includes(stderr, ConcurrentModification) THEN MsgModified
         ELSE IF Includes(stderr, PermissionDenied) THEN MsgPermission
         ELSE IF Includes(stderr, NotAValidRepo) THEN MsgNotRepo
         ELSE LET firstLine == SplitNl(Trim(stderr))[1]
              IN  IF firstLine # <<>> THEN firstLine
                  ELSE MsgExitCodePrefix \o NumToString(exitCode)
    ELSE MsgExitCodePrefix \o NumToString(exitCode)

\* the last throw of the catch block: unknown error type
unknownError(err, command, args) ==
    Throw(JjExecutionError(IF err.isError THEN err.message ELSE MsgUnknown,
                           command, args, None(<<>>), None(0), err))

\* the catch block of execJj
execJjCatch(err, command, args) ==
    IF err.isObject /\ err.hasCode
    THEN IF err.code = CodeStr("ENOENT")
         THEN Throw(JjExecutionError(MsgNotInstalled, command, args,
                                     None(<<>>), None(0), err))
         ELSE IF err.code = CodeStr("ETIMEDOUT") \/ err.signal = "SIGTERM"
         THEN Throw(JjExecutionError(MsgTimedOut, command, args,
                                     err.stderr, None(0), err))
         ELSE IF err.code.t = "number" /\ err.code.n # 0
         THEN LET stderr   == IF err.stderr.def THEN err.stderr.v ELSE <<>>
                  exitCode == err.code.n
              IN  Throw(JjExecutionError(nonZeroExitMessage(stderr, exitCode),
                                         command, args, Some(stderr),
                                         Some(exitCode), err))
         ELSE unknownError(err, command, args)
    ELSE unknownError(err, command, args)

\* bug variant: any text on stderr fails the call
execJjResolved_StderrFails(stdout, stderr, command, args) ==
    IF Trim(stderr) # <<>>
    THEN [result |-> Throw(JjExecutionError(Trim(stderr), command, args,
                                           Some(stderr), None(0),
                                           [isObject |-> TRUE, hasCode |-> FALSE,
                                            isError |-> TRUE, code |-> CodeNull,
                                            signal |-> "", stderr |-> None(<<>>),
                                            message |-> Trim(stderr)])),
          warned |-> <<>>]
    ELSE [result |-> Return(Trim(stdout)), warned |-> <<>>]

\* the try block of execJj once execFileAsync has resolved
execJjResolved(stdout, stderr, command, args) ==
    [result |-> Return(Trim(stdout)),
     warned |-> IF Trim(stderr) # <<>> THEN <<WarnPrefix \o Trim(stderr)>> ELSE <<>>]

\* ------------------------------------------------------------------
\* Repository facade: JjRepository
\* ------------------------------------------------------------------
\* new Error(message)
Error(message) == [type |-> "Error", message |-> message]

\* the stderr patterns the facade looks for
NothingToCommit ==
    <<"n", "o", "t", "h", "i", "n", "g", " ", "t", "o", " ", "c", "o", "m", "m", "i", "t">>

UnrecognizedSubcommand ==
    <<"u", "n", "r", "e", "c", "o", "g", "n", "i", "z", "e", "d", " ", "s", "u", "b", "c", "o", "m", "m", "a", "n", "d">>

\* the messages of the facade
MsgCommitEmpty ==
    <<"C", "o", "m", "m", "i", "t", " ", "m", "e", "s", "s", "a", "g", "e", " ", "c", "a", "n", "n", "o", "t", " ", "b", "e", " ", "e", "m", "p", "t", "y">>

MsgNothingToCommit ==
    <<"N", "o", "t", "h", "i", "n", "g", " ", "t", "o", " ", "c", "o", "m", "m", "i", "t", " ", "-", " ", "n", "o", " ", "c", "h", "a", "n", "g", "e", "s", " ", "i", "n", " ", "w", "o", "r", "k", "i", "n", "g", " ", "c", "o", "p", "y">>

MsgBranchEmpty ==
    <<"B", "r", "a", "n", "c", "h", " ", "n", "a", "m", "e", " ", "c", "a", "n", "n", "o", "t", " ", "b", "e", " ", "e", "m", "p", "t", "y">>

MsgRefresh ==
    <<"R", "e", "p", "o", "s", "i", "t", "o", "r", "y", " ", "w", "a", "s", " ", "m", "o", "d", "i", "f", "i", "e", "d", " ", "b", "y", " ", "a", "n", "o", "t", "h", "e", "r", " ", "p", "r", "o", "c", "e", "s", "s", ".", " ", "P", "l", "e", "a", "s", "e", " ", "r", "e", "f", "r", "e", "s", "h", " ", "a", "n", "d", " ", "t", "r", "y", " ", "a", "g", "a", "i", "n", ".">>

MsgNotImplemented ==
    <<"G", "e", "t", "t", "i", "n", "g", " ", "p", "r", "e", "v", "i", "o", "u", "s", " ", "f", "i", "l", "e", " ", "c", "o", "n", "t", "e", "n", "t", " ", "n", "o", "t", " ", "y", "e", "t", " ", "i", "m", "p", "l", "e", "m", "e", "n", "t", "e", "d", ".", " ", "P", "l", "e", "a", "s", "e", " ", "p", "r", "o", "v", "i", "d", "e", " ", "t", "h", "e", " ", "j", "j", " ", "c", "o", "m", "m", "a", "n", "d", ".">>

\* `The folder "${this.root}" is not a JuJutsu repository`
MsgFolder(rootDir) ==
    <<"T", "h", "e", " ", "f", "o", "l", "d", "e", "r", " ", "\"">> \o rootDir \o <<"\"", " ", "i", "s", " ", "n", "o", "t", " ", "a", " ", "J", "u", "J", "u", "t", "s", "u", " ", "r", "e", "p", "o", "s", "i", "t", "o", "r", "y">>

\* `Branch "${branch}" does not exist`
MsgNoBranch(branch) ==
    <<"B", "r", "a", "n", "c", "h", " ", "\"">> \o branch \o <<"\"", " ", "d", "o", "e", "s", " ", "n", "o", "t", " ", "e", "x", "i", "s", "t">>

WarnHistory ==
    <<"F", "a", "i", "l", "e", "d", " ", "t", "o", " ", "r", "e", "t", "r", "i", "e", "v", "e", " ", "c", "o", "m", "m", "i", "t", " ", "h", "i", "s", "t", "o", "r", "y", ":", " ">>

WarnBookmark ==
    <<"B", "o", "o", "k", "m", "a", "r", "k", " ", "c", "o", "m", "m", "a", "n", "d", " ", "n", "o", "t", " ", "r", "e", "c", "o", "g", "n", "i", "z", "e", "d", ",", " ", "t", "r", "y", "i", "n", "g", " ", "b", "r", "a", "n", "c", "h", " ", "c", "o", "m", "m", "a", "n", "d">>

ErrBothFailed ==
    <<"B", "o", "t", "h", " ", "b", "o", "o", "k", "m", "a", "r", "k", " ", "a", "n", "d", " ", "b", "r", "a", "n", "c", "h", " ", "c", "o", "m", "m", "a", "n", "d", "s", " ", "f", "a", "i", "l", "e", "d">>

ErrStatus ==
    <<"F", "a", "i", "l", "e", "d", " ", "t", "o", " ", "g", "e", "t", " ", "r", "e", "p", "o", "s", "i", "t", "o", "r", "y", " ", "s", "t", "a", "t", "u", "s", ":", " ">>

ErrCommand ==
    <<"C", "o", "m", "m", "a", "n", "d", ":", " ">>

ErrStderr ==
    <<"s", "t", "d", "e", "r", "r", ":", " ">>

\* the characters of the words execJj is called with
Chars(word) ==
    CASE word = "jj" -> <<"j", "j">>
      [] word = "diff" -> <<"d", "i", "f", "f">>
      [] word = "-s" -> <<"-", "s">>
      [] word = "--no-pager" -> <<"-", "-", "n", "o", "-", "p", "a", "g", "e", "r">>

RECURSIVE JoinWith(_, _)
\* parts.join(sep)
JoinWith(parts, sep) ==
    IF Len(parts) = 0 THEN <<>>
    ELSE IF Len(parts) = 1 THEN parts[1]
    ELSE parts[1] \o sep \o JoinWith(Tail(parts), sep)

RECURSIVE SplitSep(_)
\* p.split('/')
SplitSep(p) ==
    LET sep == IndexOf(p, <<"/">>)
    IN  IF sep = -1 THEN <<p>>
        ELSE <<Slice(p, 0, sep)>> \o SplitSep(SliceFrom(p, sep + 1))

RECURSIVE normalizeString(_, _, _)
\* the segments path.normalize keeps: "" and "." are dropped, ".." takes
\* back the segment before it
normalizeString(segments, kept, isAbsolute) ==
    IF Len(segments) = 0 THEN kept
    ELSE LET seg  == Head(segments)
             rest == Tail(segments)
         IN  IF seg = <<>> \/ seg = <<".">>
             THEN normalizeString(rest, kept, isAbsolute)
             ELSE IF seg = <<".", ".">>
             THEN IF Len(kept) > 0 /\ kept[Len(kept)] # <<".", ".">>
                  THEN normalizeString(rest, SubSeq(kept, 1, Len(kept) - 1), isAbsolute)
                  ELSE IF isAbsolute
                  THEN normalizeString(rest, kept, isAbsolute)
                  ELSE normalizeString(rest, Append(kept, seg), isAbsolute)
             ELSE normalizeString(rest, Append(kept, seg), isAbsolute)

\* path.normalize(p) on POSIX
normalize(p) ==
    IF Len(p) = 0 THEN <<".">>
    ELSE LET isAbsolute == p[1] = "/"
             trailingSeparator == p[Len(p)] = "/"
             body == JoinWith(normalizeString(SplitSep(p), <<>>, isAbsolute), <<"/">>)
         IN  IF Len(body) = 0
             THEN IF isAbsolute THEN <<"/">>
                  ELSE IF trailingSeparator THEN <<".", "/">> ELSE <<".">>
             ELSE (IF isAbsolute THEN <<"/">> ELSE <<>>) \o body
                  \o (IF trailingSeparator THEN <<"/">> ELSE <<>>)

\* path.join(a, b) on POSIX: empty arguments are left out, the others
\* joined with "/" and normalized
pathJoin(a, b) ==
    LET joined == IF Len(a) = 0 THEN b
                  ELSE IF Len(b) = 0 THEN a
                  ELSE a \o <<"/">> \o b
    IN  IF Len(joined) = 0 THEN <<".">> ELSE normalize(joined)

\* (f) => ({ ...f, path: path.join(this.root, f.path) })
makeAbsolute(rootDir, f) == [f EXCEPT !.path = pathJoin(rootDir, f.path)]

\* entries.map(makeAbsolute)
mapMakeAbsolute(rootDir, entries) ==
    [i \in 1..Len(entries) |-> makeAbsolute(rootDir, entries[i])]

\* bug variant: only the empty text is refused
isBlank_EmptyOnly(text) == Len(text) = 0

\* !text || !text.trim()
isBlank(text) == Len(text) = 0 \/ Len(Trim(text)) = 0

\* err.stderr?.includes(pattern)
stderrIncludes(err, pattern) == err.stderr.def /\ Includes(err.stderr.v, pattern)

\* bug variant: a failed verification is swallowed
verifyCatch_Swallow(rootDir, err) == Return(<<>>)

\* the catch block of verify
verifyCatch(rootDir, err) ==
    IF err.type = "JjExecutionError" /\ Includes(err.message, NotAValidRepo)
    THEN Throw(JjExecutionError(MsgFolder(rootDir), err.command, err.args,
                                err.stderr, err.exitCode, err))
    ELSE Throw(err)

\* the try block of status once diff() has returned
statusTry(rootDir, diffOutput) ==
    LET parsed == parseStatusOutput(diffOutput)
    IN  IF parsed.kind = "return"
        THEN Return([group \in Groups |-> mapMakeAbsolute(rootDir, parsed.value[group])])
        ELSE Throw(Error(<<>>))

\* what the catch block of status writes with console.error
statusCatchLog(err) ==
    IF err.type = "JjExecutionError"
    THEN <<ErrStatus \o err.message,
           ErrCommand \o Chars(err.command) \o <<" ">>
               \o JoinWith([i \in 1..Len(err.args) |-> Chars(err.args[i])], <<" ">>)>>
         \o (IF err.stderr.def /\ Len(err.stderr.v) > 0
             THEN <<ErrStderr \o err.stderr.v>> ELSE <<>>)
    ELSE <<>>

\* bug variant: the execution error of a failed commit is always rethrown
commitCatch_Rethrow(err) == Throw(err)

\* the catch block of commit
commitCatch(err) ==
    IF err.type = "JjExecutionError" /\ stderrIncludes(err, NothingToCommit)
    THEN Throw(Error(MsgNothingToCommit))
    ELSE Throw(err)

\* output.split('\n').filter(l => l)
logLines(logOutput) == SelectSeq(SplitNl(logOutput), LAMBDA l : Len(l) > 0)

\* bug variant: log fails when the command fails
logCatch_Rethrow(err) == [result |-> Throw(err), warned |-> <<>>]

\* the catch block of log
logCatch(err) ==
    IF err.type = "JjExecutionError"
    THEN [result |-> Return(<<>>), warned |-> <<WarnHistory \o err.message>>]
    ELSE [result |-> Throw(err), warned |-> <<>>]

\* bug variant: the lines are not trimmed
branchLines_NoTrim(listOutput) == SelectSeq(SplitNl(listOutput), LAMBDA l : Len(l) > 0)

\* output.split('\n').map(l => l.trim()).filter(l => l)
branchLines(listOutput) ==
    LET lines == SplitNl(listOutput)
    IN  SelectSeq([i \in 1..Len(lines) |-> Trim(lines[i])], LAMBDA l : Len(l) > 0)

\* bug variant: the legacy command is tried after any execution error
listBranchesFallsBack_Always(err) == err.type = "JjExecutionError"

\* whether the catch block of listBranches tries the legacy command
listBranchesFallsBack(err) ==
    err.type = "JjExecutionError" /\ stderrIncludes(err, UnrecognizedSubcommand)

\* bug variant: 'Concurrent modification' is looked for before 'No such revset'
mergeBranchCatch_Reordered(branch, err) ==
    IF err.type = "JjExecutionError" /\ stderrIncludes(err, ConcurrentModification)
    THEN Throw(Error(MsgRefresh))
    ELSE IF err.type = "JjExecutionError" /\ stderrIncludes(err, NoSuchRevset)
    THEN Throw(Error(MsgNoBranch(branch)))
    ELSE Throw(err)

\* the catch block of mergeBranch
mergeBranchCatch(branch, err) ==
    IF err.type = "JjExecutionError" /\ stderrIncludes(err, NoSuchRevset)
    THEN Throw(Error(MsgNoBranch(branch)))
    ELSE IF err.type = "JjExecutionError" /\ stderrIncludes(err, ConcurrentModification)
    THEN Throw(Error(MsgRefresh))
    ELSE Throw(err)

\* ------------------------------------------------------------------
\* Source control adapter: toResourceState and JjScmProvider
\* ------------------------------------------------------------------
\* a JavaScript value handed to toResourceState: a string or a FileStatus
JsString(text) == [t |-> "string", s |-> text, path |-> <<>>, status |-> ""]

JsFile(f) == [t |-> "object", s |-> <<>>, path |-> f.path, status |-> f.status]

\* the TypeError of path.isAbsolute / path.join for an argument that is
\* no string
TypeError == [type |-> "TypeError", message |-> <<>>]

\* toResourceState(file, root): `file.path` of a string is undefined, and
\* path.isAbsolute(undefined) throws
toResourceState(file, rootDir) ==
    IF file.t # "object" THEN Throw(TypeError)
    ELSE IF Len(file.path) > 0 /\ file.path[1] = "/"
    THEN Return([resourceUri |-> file.path, tooltip |-> file.status])
    ELSE IF rootDir.t # "string" THEN Throw(TypeError)
    ELSE Return([resourceUri |-> pathJoin(rootDir.s, file.path), tooltip |-> file.status])

RECURSIVE pushResourceStates(_, _, _)
\* for (const file of files) { try { resourceStates.push(toResourceState(root, file)) }
\* catch { log } }: the states pushed and the number of warnings logged
pushResourceStates(acc, files, rootDir) ==
    IF Len(files) = 0 THEN acc
    ELSE LET made == toResourceState(JsString(rootDir), JsFile(Head(files)))
         IN  pushResourceStates(
                 IF made.kind = "return"
                 THEN [acc EXCEPT !.states = Append(@, made.value)]
                 ELSE [acc EXCEPT !.warned = @ + 1],
                 Tail(files), rootDir)

\* the resource states refresh() builds from a StatusSummary
buildResourceStates(summary, rootDir) ==
    pushResourceStates(
        pushResourceStates(
            pushResourceStates(
                pushResourceStates([states |-> <<>>, warned |-> 0],
                                   summary.modified, rootDir),
                summary.added, rootDir),
            summary.deleted, rootDir),
        summary.moved, rootDir)

\* one call of refresh() or commit(): where it stands and what it keeps
Task(kind, pc, isAutoRefresh, origin) ==
    [kind |-> kind, pc |-> pc, isAutoRefresh |-> isAutoRefresh, origin |-> origin,
     failed |-> FALSE, child |-> 0, mark |-> 0]

\* bug variant: refresh() never returns early
refreshSkips_Never(flag) == FALSE

\* if (this.refreshing) return
refreshSkips(flag) == flag

\* finally { this.refreshing = false }
refreshFinally(flag) == FALSE

\* refresh(isAutoRefresh) up to its return or its await of repo.status()
refreshCall(flag, isAutoRefresh, origin) ==
    IF refreshSkips(flag)
    THEN [task |-> Task("refresh", "skipped", isAutoRefresh, origin),
          refreshing |-> flag, calls |-> 0]
    ELSE [task |-> Task("refresh", "awaitStatus", isAutoRefresh, origin),
          refreshing |-> TRUE, calls |-> 1]

\* ------------------------------------------------------------------
\* JjTreeDataProvider (ui/commit_view.ts)
\* ------------------------------------------------------------------

\* new FileGroupTreeItem(`${label} (${files.length})`, files, root)
FileGroupTreeItem(label, files) ==
    [type |-> "fileGroup", label |-> label, count |-> Len(files), files |-> files]

\* new vscode.TreeItem(label)
TreeItem(label) == [type |-> "item", label |-> label, count |-> 0, files |-> <<>>]

\* new FileTreeItem(file, workspaceRoot), by its tooltip
FileTreeItem(f) == [type |-> "file", label |-> f.path, count |-> 0, files |-> <<f>>]

NoChangesItem == TreeItem("No changes in working copy")

ErrorItem == TreeItem("Failed to load changes")

\* groups.push(new FileGroupTreeItem(...)) if the files are not empty
pushGroup(groups, label, files) ==
    IF Len(files) > 0 THEN Append(groups, FileGroupTreeItem(label, files)) ELSE groups

\* getFileGroups(), from what `await this.getStatus()` gave
getFileGroups(awaited) ==
    IF awaited.kind = "throw" THEN <<ErrorItem>>
    ELSE LET status == awaited.value
             groups ==
                 pushGroup(pushGroup(pushGroup(pushGroup(<<>>,
                     "Modified", status.modified), "Added", status.added),
                     "Moved", status.moved), "Deleted", status.deleted)
         IN  IF Len(groups) = 0 THEN <<NoChangesItem>> ELSE groups

\* the handler getStatus() chains to repo.status(): .catch(err => { ...;
\* return { modified: [], added: [], deleted: [], moved: [] } })
getStatusCatch(err) == Return(EmptySummary)

\* bug variant: getStatus() calls repo.status() whether or not a promise
\* is cached
getStatusStarts_Always(cached) == TRUE

\* if (!this.cachedStatus): 0 stands for undefined
getStatusStarts(cached) == cached = 0

\* this.cachedStatus = undefined
refreshCache(cached) == 0

\* getChildren(element) for an element that is given
childrenOf(element) ==
    IF element.type = "fileGroup"
    THEN [i \in 1..Len(element.files) |-> FileTreeItem(element.files[i])]
    ELSE <<>>

\* ------------------------------------------------------------------
\* State machines
\* ------------------------------------------------------------------
NoResult == [kind |-> "none", value |-> EmptySummary]

NoExecResult == [kind |-> "none", value |-> <<>>, error |-> NoError]

NoErr ==
    [isObject |-> FALSE, hasCode |-> FALSE, isError |-> FALSE, code |-> CodeNull,
     signal |-> "", stderr |-> None(<<>>), message |-> <<>>]

NoProc == [settled |-> "pending", stdout |-> <<>>, stderr |-> <<>>, err |-> NoErr]

ParserOff == output = <<>> /\ parsePc = "off" /\ parseResult = NoResult

ExecOff ==
    /\ execArgs = <<>>
    /\ execPc = "off"
    /\ procEvent = "none"
    /\ proc = NoProc
    /\ execResult = NoExecResult
    /\ warnings = <<>>

ScmOff ==
    /\ scmPc = "off"
    /\ refreshing = FALSE
    /\ autoRefreshEnabled = FALSE
    /\ lastRefreshError = FALSE
    /\ resourceStates = <<>>
    /\ scmCount = 0
    /\ tasks = <<>>
    /\ statusStarted = 0
    /\ scmLogged = {}

StateOff ==
    /\ stateFile = FileStatus(<<>>, "")
    /\ statePc = "off"
    /\ stateResult = NoExecResult

TreeOff ==
    /\ treePc = "off"
    /\ cachedStatus = 0
    /\ statusPromises = <<>>
    /\ childrenCalls = <<>>
    /\ statusSinceRefresh = 0

DebounceOff ==
    /\ debouncePc = "off"
    /\ now = 0
    /\ timers = {}
    /\ timeout = 0
    /\ lastEvent = 0
    /\ firedSinceEvent = 0

ActivateOff ==
    /\ activatePc = "off"
    /\ rootPath = <<>>
    /\ jjExists = FALSE
    /\ verifyResult = NoExecResult
    /\ contexts = <<>>
    /\ constructed = <<>>
    /\ registrations = <<>>
    /\ nextCommand = 0
    /\ shown = <<>>

UiOff == StateOff /\ TreeOff /\ DebounceOff /\ ActivateOff

FacadeOff ==
    /\ root = <<>>
    /\ method = "none"
    /\ arg = <<>>
    /\ facadePc = "off"
    /\ spawned = <<>>
    /\ caught = NoError
    /\ facadeResult = NoExecResult
    /\ errorsLogged = <<>>

\* a caller hands `output` to parseStatusOutput and gets its outcome
Parse ==
    /\ parsePc = "ready"
    /\ parseResult' = parseStatusOutput(output)
    /\ parsePc' = "done"
    /\ UNCHANGED <<output, execVars, facadeVars, scmVars, uiVars>>

InitParse ==
    /\ \E n \in 0..MaxParseTokens :
          \E ts \in [1..n -> ParseTokens] : output = Flatten(ts)
    /\ parsePc = "ready"
    /\ parseResult = NoResult
    /\ ExecOff
    /\ FacadeOff
    /\ ScmOff
    /\ UiOff

InitLines ==
    /\ \E n \in 0..MaxLineTokens :
          \E ts \in [1..n -> LineTokens] : output = Flatten(ts)
    /\ parsePc = "ready"
    /\ parseResult = NoResult
    /\ ExecOff
    /\ FacadeOff
    /\ ScmOff
    /\ UiOff

\* one rename line: "R " followed by a path field
InitRename ==
    /\ \E n \in 0..MaxFieldTokens :
          \E ts \in [1..n -> FieldTokens] : output = <<"R", " ">> \o Flatten(ts)
    /\ parsePc = "ready"
    /\ parseResult = NoResult
    /\ ExecOff
    /\ FacadeOff
    /\ ScmOff
    /\ UiOff

NextParse == Parse

SpecParse == InitParse /\ [][NextParse]_vars

SpecLines == InitLines /\ [][NextParse]_vars

SpecRename == InitRename /\ [][NextParse]_vars

\* --- execJj: the jj process and the promise of execFileAsync ---

\* argument lists the repository methods pass to execJj
ArgLists == {<<"root">>, <<"diff", "-s", "--no-pager">>}

\* pieces of what jj writes to stderr: the four patterns of execJj, other
\* text, a blank and a line end
StderrTokens ==
    {NoSuchRevset, ConcurrentModification, PermissionDenied, NotAValidRepo,
     <<"e">>, <<" ">>, <<"\n">>}

StderrStrings == TokenStrings(StderrTokens, MaxStderrTokens)

\* stderr of a run that ends well
WarnStrings == TokenStrings(StderrTokens, MaxWarnTokens)

StdoutStrings == TokenStrings({<<"o">>, <<" ">>, <<"\n">>}, MaxStdoutTokens)

\* what the child had written to stderr when it was killed
PartialStderr == {<<>>, <<"e">>}

\* pieces of what jj writes to stderr when a facade method runs it: the
\* patterns the facade and execJj look for, and other text
FacadeStderrTokens ==
    {NoSuchRevset, ConcurrentModification, NotAValidRepo, NothingToCommit,
     UnrecognizedSubcommand, <<"e">>}

\* stderr of a failed legacy `branch list`
LegacyStderr == {<<>>, <<"e">>, UnrecognizedSubcommand}

\* pieces of `jj diff -s` output as status() reads it: two status codes
\* with their blank, path characters, the separator and a line end
DiffTokens ==
    {<<"M", " ">>, <<"R", " ">>, <<"a">>, <<"/">>, <<".">>, <<"\n">>}

\* pieces of the output of `jj log` and `jj bookmark list`: text, a blank
\* and a line end
ListTokens == {<<"o">>, <<" ">>, <<"\n">>}

\* stdout of a legacy `branch list` that ends well
LegacyStdout == {<<>>, <<"o">>, <<"o", "\n", " ", "o", " ", "\n">>}

\* what jj may print to stdout, for the command that is run
StdoutFor(args) ==
    IF facadePc = "off" THEN StdoutStrings
    ELSE IF args[1] = "diff" THEN TokenStrings(DiffTokens, MaxDiffTokens)
    ELSE IF args[1] \in {"log", "bookmark"} THEN TokenStrings(ListTokens, MaxListTokens)
    ELSE IF args[1] = "branch" THEN LegacyStdout
    ELSE StdoutStrings

\* what jj may print to stderr when it ends well
WarnFor(args) == IF facadePc # "off" THEN PartialStderr ELSE WarnStrings

\* what jj may print to stderr when it fails
StderrFor(args) ==
    IF facadePc = "off" THEN StderrStrings
    ELSE IF args[1] = "branch" THEN LegacyStderr
    ELSE TokenStrings(FacadeStderrTokens, MaxFacadeStderrTokens)

\* the message Node gives the error of a failed command
CommandFailed == <<"f", "a", "i", "l">>

\* the Error execFile rejects with: code, signal and the captured stderr
ExecError(code, signal, stderr) ==
    [isObject |-> TRUE, hasCode |-> TRUE, isError |-> TRUE, code |-> code,
     signal |-> signal, stderr |-> Some(stderr), message |-> CommandFailed]

Settle(event, settled, stdout, stderr, err) ==
    /\ procEvent' = event
    /\ proc' = [settled |-> settled, stdout |-> stdout, stderr |-> stderr, err |-> err]

\* jj exits with code 0: the promise resolves with { stdout, stderr }
ProcExitZero ==
    /\ execPc = "running"
    /\ execPc' = "settled"
    /\ \E stdout \in StdoutFor(execArgs), stderr \in WarnFor(execArgs) :
          Settle("exit", "resolved", stdout, stderr, NoErr)
    /\ UNCHANGED <<execArgs, execResult, warnings, parseVars, facadeVars, scmVars, uiVars>>

\* jj exits with a code other than 0: the promise rejects, err.code the code
ProcExitNonZero ==
    /\ execPc = "running"
    /\ execPc' = "settled"
    /\ \E code \in 1..MaxExitCode, stderr \in StderrFor(execArgs) :
          Settle("exit", "rejected", <<>>, stderr, ExecError(CodeNum(code), "", stderr))
    /\ UNCHANGED <<execArgs, execResult, warnings, parseVars, facadeVars, scmVars, uiVars>>

\* the jj binary is not on the PATH: spawn fails with ENOENT
ProcNotFound ==
    /\ execPc = "running"
    /\ execPc' = "settled"
    /\ Settle("notFound", "rejected", <<>>, <<>>, ExecError(CodeStr("ENOENT"), "", <<>>))
    /\ UNCHANGED <<execArgs, execResult, warnings, parseVars, facadeVars, scmVars, uiVars>>

\* the run exceeds the timeout of 30000 ms: Node kills the child with
\* SIGTERM (err.code null, err.signal SIGTERM), or the timeout surfaces as
\* code ETIMEDOUT
ProcTimeout ==
    /\ execPc = "running"
    /\ execPc' = "settled"
    /\ \E stderr \in PartialStderr :
          \E err \in {ExecError(CodeNull, "SIGTERM", stderr),
                      ExecError(CodeStr("ETIMEDOUT"), "", stderr)} :
              Settle("timeout", "rejected", <<>>, stderr, err)
    /\ UNCHANGED <<execArgs, execResult, warnings, parseVars, facadeVars, scmVars, uiVars>>

\* something else ends the child with a signal before the timeout
ProcKilled ==
    /\ execPc = "running"
    /\ execPc' = "settled"
    /\ \E signal \in {"SIGTERM", "SIGKILL"}, stderr \in PartialStderr :
          Settle("killed", "rejected", <<>>, stderr, ExecError(CodeNull, signal, stderr))
    /\ UNCHANGED <<execArgs, execResult, warnings, parseVars, facadeVars, scmVars, uiVars>>

\* any other rejection: another errno (EACCES), an Error with no code (a
\* TypeError under a test double), a value that is no Error
ProcOtherError ==
    /\ execPc = "running"
    /\ execPc' = "settled"
    /\ \E err \in {ExecError(CodeStr("EACCES"), "", <<>>),
                   [isObject |-> TRUE, hasCode |-> FALSE, isError |-> TRUE,
                    code |-> CodeNull, signal |-> "", stderr |-> None(<<>>),
                    message |-> CommandFailed],
                   [isObject |-> FALSE, hasCode |-> FALSE, isError |-> FALSE,
                    code |-> CodeNull, signal |-> "", stderr |-> None(<<>>),
                    message |-> <<>>]} :
          Settle("other", "rejected", <<>>, <<>>, err)
    /\ UNCHANGED <<execArgs, execResult, warnings, parseVars, facadeVars, scmVars, uiVars>>

\* execJj resumes after the await: the rest of the try block, or the catch
ExecJjContinue ==
    /\ execPc = "settled"
    /\ execPc' = "done"
    /\ IF proc.settled = "resolved"
       THEN LET r == execJjResolved(proc.stdout, proc.stderr, "jj", execArgs)
            IN  execResult' = r.result /\ warnings' = warnings \o r.warned
       ELSE /\ execResult' = execJjCatch(proc.err, "jj", execArgs)
            /\ UNCHANGED warnings
    /\ UNCHANGED <<execArgs, procEvent, proc, parseVars, facadeVars, scmVars, uiVars>>

\* execJj(args, { cwd }) has called execFileAsync and awaits it
InitExec ==
    /\ ParserOff
    /\ FacadeOff
    /\ ScmOff
    /\ UiOff
    /\ execArgs \in ArgLists
    /\ execPc = "running"
    /\ procEvent = "none"
    /\ proc = NoProc
    /\ execResult = NoExecResult
    /\ warnings = <<>>

NextExec ==
    \/ ProcExitZero
    \/ ProcExitNonZero
    \/ ProcNotFound
    \/ ProcTimeout
    \/ ProcKilled
    \/ ProcOtherError
    \/ ExecJjContinue

SpecExec == InitExec /\ [][NextExec]_vars

\* --- JjRepository: one call of a facade method ---

\* the working-copy roots a JjRepository is built with
Roots == {<<"/", "r">>, <<"/", "w">>}

\* a commit message or a branch name: text and blanks
ArgTexts == TokenStrings({<<"x">>, <<" ">>}, MaxArgTokens)

\* the paths getPreviousFileContent is called with
FilePaths == {<<"a">>, <<"/", "r", "/", "a">>}

\* execJj is called: it calls execFileAsync, which spawns jj, and awaits it
execJjCall(args) ==
    /\ execArgs' = args
    /\ execPc' = "running"
    /\ procEvent' = "none"
    /\ proc' = NoProc
    /\ execResult' = NoExecResult
    /\ spawned' = Append(spawned, args)

\* verify() up to its await
verify ==
    /\ facadePc = "idle"
    /\ method' = "verify"
    /\ facadePc' = "awaitExec"
    /\ execJjCall(<<"root">>)
    /\ UNCHANGED <<root, arg, caught, facadeResult, errorsLogged, warnings, parseVars, scmVars, uiVars>>

\* verify() after execJj has settled
verifyResume ==
    /\ facadePc = "awaitExec" /\ method = "verify" /\ execPc = "done"
    /\ facadePc' = "done"
    /\ facadeResult' = IF execResult.kind = "return" THEN Return(<<>>)
                       ELSE verifyCatch(root, execResult.error)
    /\ UNCHANGED <<root, method, arg, spawned, caught, errorsLogged, execVars, parseVars, scmVars, uiVars>>

\* status() up to the await of this.diff()
status ==
    /\ facadePc = "idle"
    /\ method' = "status"
    /\ facadePc' = "awaitExec"
    /\ execJjCall(<<"diff", "-s", "--no-pager">>)
    /\ UNCHANGED <<root, arg, caught, facadeResult, errorsLogged, warnings, parseVars, scmVars, uiVars>>

\* status() after diff() has settled: the rest of the try block, or the catch
statusResume ==
    /\ facadePc = "awaitExec" /\ method = "status" /\ execPc = "done"
    /\ facadePc' = "done"
    /\ LET r == IF execResult.kind = "return" THEN statusTry(root, execResult.value)
                ELSE Throw(execResult.error)
       IN  /\ facadeResult' = r
           /\ errorsLogged' = IF r.kind = "throw"
                              THEN errorsLogged \o statusCatchLog(r.error)
                              ELSE errorsLogged
    /\ UNCHANGED <<root, method, arg, spawned, caught, execVars, parseVars, scmVars, uiVars>>

\* commit(message) up to its throw or its await
commit ==
    /\ facadePc = "idle"
    /\ method' = "commit"
    /\ \E message \in ArgTexts :
          /\ arg' = message
          /\ IF isBlank(message)
             THEN /\ facadePc' = "done"
                  /\ facadeResult' = Throw(Error(MsgCommitEmpty))
                  /\ UNCHANGED <<spawned, execVars>>
             ELSE /\ facadePc' = "awaitExec"
                  /\ execJjCall(<<"commit", "-m", message>>)
                  /\ UNCHANGED <<facadeResult, warnings>>
    /\ UNCHANGED <<root, caught, errorsLogged, parseVars, scmVars, uiVars>>

\* commit(message) after execJj has settled
commitResume ==
    /\ facadePc = "awaitExec" /\ method = "commit" /\ execPc = "done"
    /\ facadePc' = "done"
    /\ facadeResult' = IF execResult.kind = "return" THEN Return(<<>>)
                       ELSE commitCatch(execResult.error)
    /\ UNCHANGED <<root, method, arg, spawned, caught, errorsLogged, execVars, parseVars, scmVars, uiVars>>

\* diff() up to its await
diff ==
    /\ facadePc = "idle"
    /\ method' = "diff"
    /\ facadePc' = "awaitExec"
    /\ execJjCall(<<"diff", "-s", "--no-pager">>)
    /\ UNCHANGED <<root, arg, caught, facadeResult, errorsLogged, warnings, parseVars, scmVars, uiVars>>

\* diff() after execJj has settled
diffResume ==
    /\ facadePc = "awaitExec" /\ method = "diff" /\ execPc = "done"
    /\ facadePc' = "done"
    /\ facadeResult' = execResult
    /\ UNCHANGED <<root, method, arg, spawned, caught, errorsLogged, execVars, parseVars, scmVars, uiVars>>

\* log() up to its await
log ==
    /\ facadePc = "idle"
    /\ method' = "log"
    /\ facadePc' = "awaitExec"
    /\ execJjCall(<<"log", "-T", "description", "--no-pager", "--no-graph",
                    "-r", "::@", "-n", "20">>)
    /\ UNCHANGED <<root, arg, caught, facadeResult, errorsLogged, warnings, parseVars, scmVars, uiVars>>

\* log() after execJj has settled
logResume ==
    /\ facadePc = "awaitExec" /\ method = "log" /\ execPc = "done"
    /\ facadePc' = "done"
    /\ IF execResult.kind = "return"
       THEN /\ facadeResult' = Return(logLines(execResult.value))
            /\ UNCHANGED warnings
       ELSE LET c == logCatch(execResult.error)
            IN  /\ facadeResult' = c.result
                /\ warnings' = warnings \o c.warned
    /\ UNCHANGED <<root, method, arg, spawned, caught, errorsLogged,
                   execArgs, execPc, procEvent, proc, execResult, parseVars, scmVars, uiVars>>

\* listBranches() up to its first await
listBranches ==
    /\ facadePc = "idle"
    /\ method' = "listBranches"
    /\ facadePc' = "awaitExec"
    /\ execJjCall(<<"bookmark", "list", "--no-pager">>)
    /\ UNCHANGED <<root, arg, caught, facadeResult, errorsLogged, warnings, parseVars, scmVars, uiVars>>

\* listBranches() after `bookmark list` has settled: its lines, or the
\* catch block, which may call execJj again
listBranchesResume ==
    /\ facadePc = "awaitExec" /\ method = "listBranches" /\ execPc = "done"
    /\ IF execResult.kind = "return"
       THEN /\ facadePc' = "done"
            /\ facadeResult' = Return(branchLines(execResult.value))
            /\ UNCHANGED <<caught, spawned, execVars>>
       ELSE IF listBranchesFallsBack(execResult.error)
       THEN /\ facadePc' = "awaitFallback"
            /\ caught' = execResult.error
            /\ warnings' = Append(warnings, WarnBookmark)
            /\ execJjCall(<<"branch", "list", "--no-pager">>)
            /\ UNCHANGED facadeResult
       ELSE /\ facadePc' = "done"
            /\ facadeResult' = Throw(execResult.error)
            /\ UNCHANGED <<caught, spawned, execVars>>
    /\ UNCHANGED <<root, method, arg, errorsLogged, parseVars, scmVars, uiVars>>

\* listBranches() after `branch list` has settled
listBranchesFallbackResume ==
    /\ facadePc = "awaitFallback" /\ method = "listBranches" /\ execPc = "done"
    /\ facadePc' = "done"
    /\ IF execResult.kind = "return"
       THEN /\ facadeResult' = Return(branchLines(execResult.value))
            /\ UNCHANGED errorsLogged
       ELSE /\ facadeResult' = Throw(caught)
            /\ errorsLogged' = Append(errorsLogged, ErrBothFailed)
    /\ UNCHANGED <<root, method, arg, spawned, caught, execVars, parseVars, scmVars, uiVars>>

\* mergeBranch(branch) up to its throw or its await
mergeBranch ==
    /\ facadePc = "idle"
    /\ method' = "mergeBranch"
    /\ \E branch \in ArgTexts :
          /\ arg' = branch
          /\ IF isBlank(branch)
             THEN /\ facadePc' = "done"
                  /\ facadeResult' = Throw(Error(MsgBranchEmpty))
                  /\ UNCHANGED <<spawned, execVars>>
             ELSE /\ facadePc' = "awaitExec"
                  /\ execJjCall(<<"new", branch, "@">>)
                  /\ UNCHANGED <<facadeResult, warnings>>
    /\ UNCHANGED <<root, caught, errorsLogged, parseVars, scmVars, uiVars>>

\* mergeBranch(branch) after execJj has settled
mergeBranchResume ==
    /\ facadePc = "awaitExec" /\ method = "mergeBranch" /\ execPc = "done"
    /\ facadePc' = "done"
    /\ facadeResult' = IF execResult.kind = "return" THEN Return(<<>>)
                       ELSE mergeBranchCatch(arg, execResult.error)
    /\ UNCHANGED <<root, method, arg, spawned, caught, errorsLogged, execVars, parseVars, scmVars, uiVars>>

\* getPreviousFileContent(filePath): the body is one throw
getPreviousFileContent ==
    /\ facadePc = "idle"
    /\ method' = "getPreviousFileContent"
    /\ facadePc' = "done"
    /\ \E filePath \in FilePaths : arg' = filePath
    /\ facadeResult' = Throw(Error(MsgNotImplemented))
    /\ UNCHANGED <<root, spawned, caught, errorsLogged, execVars, parseVars, scmVars, uiVars>>

\* new JjRepository(root), before any method is called
InitFacade ==
    /\ ParserOff
    /\ ExecOff
    /\ ScmOff
    /\ UiOff
    /\ root \in Roots
    /\ method = "none"
    /\ arg = <<>>
    /\ facadePc = "idle"
    /\ spawned = <<>>
    /\ caught = NoError
    /\ facadeResult = NoExecResult
    /\ errorsLogged = <<>>

NextFacade ==
    \/ verify
    \/ verifyResume
    \/ status
    \/ statusResume
    \/ commit
    \/ commitResume
    \/ diff
    \/ diffResume
    \/ log
    \/ logResume
    \/ listBranches
    \/ listBranchesResume
    \/ listBranchesFallbackResume
    \/ mergeBranch
    \/ mergeBranchResume
    \/ getPreviousFileContent
    \/ ProcExitZero
    \/ ProcExitNonZero
    \/ ProcNotFound
    \/ ProcTimeout
    \/ ProcKilled
    \/ ProcOtherError
    \/ ExecJjContinue

SpecFacade == InitFacade /\ [][NextFacade]_vars

\* --- JjScmProvider: refresh() and commit() calls that overlap ---

\* what repo.status() may resolve with: no change, one file, two files
ScmSummaries ==
    {EmptySummary,
     [EmptySummary EXCEPT !.modified = <<FileStatus(<<"/", "r", "/", "a">>, "modified")>>],
     [EmptySummary EXCEPT !.modified = <<FileStatus(<<"/", "r", "/", "a">>, "modified")>>,
                          !.added = <<FileStatus(<<"/", "r", "/", "b">>, "added")>>]}

\* what the user may do with the 'Failed to refresh repository status' dialog
DialogActions == {"Retry", "Disable Auto-refresh", "dismissed"}

\* onDidSaveTextDocument: an auto-refresh, unless one is running
SaveEvent ==
    /\ scmPc = "on"
    /\ Len(tasks) < MaxScmCalls
    /\ autoRefreshEnabled
    /\ ~refreshing
    /\ LET c == refreshCall(refreshing, TRUE, "save")
       IN  /\ tasks' = Append(tasks, c.task)
           /\ refreshing' = c.refreshing
           /\ statusStarted' = statusStarted + c.calls
    /\ UNCHANGED <<scmPc, autoRefreshEnabled, lastRefreshError, resourceStates,
                   scmCount, scmLogged, parseVars, execVars, facadeVars, uiVars>>

\* the 'jj-vsc.refresh' command (or merge_branch): scmProvider.refresh()
RefreshCommand ==
    /\ scmPc = "on"
    /\ Len(tasks) < MaxScmCalls
    /\ LET c == refreshCall(refreshing, FALSE, "command")
       IN  /\ tasks' = Append(tasks, c.task)
           /\ refreshing' = c.refreshing
           /\ statusStarted' = statusStarted + c.calls
    /\ UNCHANGED <<scmPc, autoRefreshEnabled, lastRefreshError, resourceStates,
                   scmCount, scmLogged, parseVars, execVars, facadeVars, uiVars>>

\* the 'jj-vsc.toggleAutoRefresh' command
ToggleAutoRefresh ==
    /\ scmPc = "on"
    /\ autoRefreshEnabled' = ~autoRefreshEnabled
    /\ UNCHANGED <<scmPc, refreshing, lastRefreshError, resourceStates, scmCount,
                   tasks, statusStarted, scmLogged, parseVars, execVars, facadeVars, uiVars>>

\* refresh(): repo.status() resolves; the rest of the try block
StatusResolves ==
    /\ scmPc = "on"
    /\ \E t \in 1..Len(tasks), summary \in ScmSummaries :
          /\ tasks[t].pc = "awaitStatus"
          /\ LET built == buildResourceStates(summary, root)
                 notifies == lastRefreshError /\ ~tasks[t].isAutoRefresh
             IN  /\ resourceStates' = built.states
                 /\ scmCount' = Len(built.states)
                 /\ scmLogged' = IF built.warned > 0
                                 THEN scmLogged \cup {"Failed to create resource state"}
                                 ELSE scmLogged
                 /\ lastRefreshError' = FALSE
                 /\ tasks' = [tasks EXCEPT ![t].pc =
                                 IF notifies THEN "awaitNotify" ELSE "done"]
                 /\ refreshing' = IF notifies THEN refreshing
                                  ELSE refreshFinally(refreshing)
    /\ UNCHANGED <<scmPc, autoRefreshEnabled, statusStarted, parseVars, execVars,
                   facadeVars, uiVars>>

\* refresh(): notify('Repository status refreshed successfully') resolves
NotifyResolves ==
    /\ scmPc = "on"
    /\ \E t \in 1..Len(tasks) :
          /\ tasks[t].kind = "refresh" /\ tasks[t].pc = "awaitNotify"
          /\ tasks' = [tasks EXCEPT ![t].pc = "done"]
    /\ refreshing' = refreshFinally(refreshing)
    /\ UNCHANGED <<scmPc, autoRefreshEnabled, lastRefreshError, resourceStates,
                   scmCount, statusStarted, scmLogged, parseVars, execVars, facadeVars, uiVars>>

\* refresh(): repo.status() rejects; the catch block up to its await, or
\* for an auto-refresh up to the end
StatusRejects ==
    /\ scmPc = "on"
    /\ \E t \in 1..Len(tasks) :
          /\ tasks[t].pc = "awaitStatus"
          /\ IF tasks[t].isAutoRefresh
             THEN /\ tasks' = [tasks EXCEPT ![t].pc = "done", ![t].failed = TRUE]
                  /\ refreshing' = refreshFinally(refreshing)
                  /\ scmLogged' = IF tasks[t].origin = "save"
                                  THEN scmLogged \cup {"Auto-refresh failed"}
                                  ELSE scmLogged
             ELSE /\ tasks' = [tasks EXCEPT ![t].pc = "awaitHandleJjError",
                                            ![t].failed = TRUE]
                  /\ UNCHANGED <<refreshing, scmLogged>>
    /\ lastRefreshError' = TRUE
    /\ resourceStates' = <<>>
    /\ scmCount' = 0
    /\ UNCHANGED <<scmPc, autoRefreshEnabled, statusStarted, parseVars, execVars,
                   facadeVars, uiVars>>

\* refresh(): handleJjError resolves and its then-callback shows the
\* dialog with 'Retry' and 'Disable Auto-refresh'
HandleJjErrorResolves ==
    /\ scmPc = "on"
    /\ \E t \in 1..Len(tasks) :
          /\ tasks[t].kind = "refresh" /\ tasks[t].pc = "awaitHandleJjError"
          /\ tasks' = [tasks EXCEPT ![t].pc = "awaitDialog"]
    /\ UNCHANGED <<scmPc, refreshing, autoRefreshEnabled, lastRefreshError,
                   resourceStates, scmCount, statusStarted, scmLogged, parseVars,
                   execVars, facadeVars, uiVars>>

\* refresh(): the user answers the dialog; the callback acts on the answer,
\* then the catch block rethrows and the finally block runs
PickAction ==
    /\ scmPc = "on"
    /\ \E t \in 1..Len(tasks), action \in DialogActions :
          /\ tasks[t].pc = "awaitDialog"
          /\ LET c == refreshCall(refreshing, FALSE, "retry")
                 ended == [tasks EXCEPT ![t].pc = "done"]
             IN  IF action = "Retry"
                 THEN /\ tasks' = Append(ended, c.task)
                      /\ statusStarted' = statusStarted + c.calls
                      /\ refreshing' = refreshFinally(c.refreshing)
                      /\ UNCHANGED autoRefreshEnabled
                 ELSE /\ tasks' = ended
                      /\ refreshing' = refreshFinally(refreshing)
                      /\ autoRefreshEnabled' =
                            IF action = "Disable Auto-refresh" THEN FALSE
                            ELSE autoRefreshEnabled
                      /\ UNCHANGED statusStarted
    /\ UNCHANGED <<scmPc, lastRefreshError, resourceStates, scmCount, scmLogged,
                   parseVars, execVars, facadeVars, uiVars>>

\* commit(message) up to its await of withProgress(() => repo.commit(message))
CommitCall ==
    /\ scmPc = "on"
    /\ Len(tasks) < MaxScmCalls
    /\ tasks' = Append(tasks, Task("commit", "awaitCommit", FALSE, "command"))
    /\ UNCHANGED <<scmPc, refreshing, autoRefreshEnabled, lastRefreshError,
                   resourceStates, scmCount, statusStarted, scmLogged, parseVars,
                   execVars, facadeVars, uiVars>>

\* commit(): repo.commit resolves, notify('Changes committed successfully')
\* is awaited
CommitResolves ==
    /\ scmPc = "on"
    /\ \E t \in 1..Len(tasks) :
          /\ tasks[t].pc = "awaitCommit"
          /\ tasks' = [tasks EXCEPT ![t].pc = "awaitNotify",
                                    ![t].mark = statusStarted]
    /\ UNCHANGED <<scmPc, refreshing, autoRefreshEnabled, lastRefreshError,
                   resourceStates, scmCount, statusStarted, scmLogged, parseVars,
                   execVars, facadeVars, uiVars>>

\* commit(): repo.commit rejects, handleJjError('Failed to commit') is awaited
CommitRejects ==
    /\ scmPc = "on"
    /\ \E t \in 1..Len(tasks) :
          /\ tasks[t].pc = "awaitCommit"
          /\ tasks' = [tasks EXCEPT ![t].pc = "awaitHandleJjError",
                                    ![t].failed = TRUE,
                                    ![t].mark = statusStarted]
    /\ UNCHANGED <<scmPc, refreshing, autoRefreshEnabled, lastRefreshError,
                   resourceStates, scmCount, statusStarted, scmLogged, parseVars,
                   execVars, facadeVars, uiVars>>

\* commit(): the notification settles; the finally block calls
\* this.refresh() and awaits it
CommitFinally ==
    /\ scmPc = "on"
    /\ \E t \in 1..Len(tasks) :
          /\ tasks[t].kind = "commit"
          /\ tasks[t].pc \in {"awaitNotify", "awaitHandleJjError"}
          /\ LET c == refreshCall(refreshing, FALSE, "commit")
             IN  /\ tasks' = Append([tasks EXCEPT ![t].pc = "awaitRefresh",
                                                  ![t].child = Len(tasks) + 1],
                                    c.task)
                 /\ refreshing' = c.refreshing
                 /\ statusStarted' = statusStarted + c.calls
    /\ UNCHANGED <<scmPc, autoRefreshEnabled, lastRefreshError, resourceStates,
                   scmCount, scmLogged, parseVars, execVars, facadeVars, uiVars>>

\* commit(): the awaited refresh() has settled; commit() completes
CommitReturns ==
    /\ scmPc = "on"
    /\ \E t \in 1..Len(tasks) :
          /\ tasks[t].pc = "awaitRefresh"
          /\ tasks[tasks[t].child].pc \in {"done", "skipped"}
          /\ tasks' = [tasks EXCEPT ![t].pc = "done"]
          /\ scmLogged' = IF tasks[tasks[t].child].failed
                          THEN scmLogged \cup {"Post-commit refresh failed"}
                          ELSE scmLogged
    /\ UNCHANGED <<scmPc, refreshing, autoRefreshEnabled, lastRefreshError,
                   resourceStates, scmCount, statusStarted, parseVars, execVars,
                   facadeVars, uiVars>>

\* new JjScmProvider(repo, notificationService): the constructor has
\* called `void this.refresh()`
InitScm ==
    /\ ParserOff
    /\ ExecOff
    /\ root = <<"/", "r">>
    /\ method = "none"
    /\ arg = <<>>
    /\ facadePc = "off"
    /\ spawned = <<>>
    /\ caught = NoError
    /\ facadeResult = NoExecResult
    /\ errorsLogged = <<>>
    /\ UiOff
    /\ scmPc = "on"
    /\ autoRefreshEnabled = TRUE
    /\ lastRefreshError = FALSE
    /\ resourceStates = <<>>
    /\ scmCount = 0
    /\ scmLogged = {}
    /\ LET c == refreshCall(FALSE, FALSE, "constructor")
       IN  /\ tasks = <<c.task>>
           /\ refreshing = c.refreshing
           /\ statusStarted = c.calls

NextScm ==
    \/ SaveEvent
    \/ RefreshCommand
    \/ ToggleAutoRefresh
    \/ StatusResolves
    \/ NotifyResolves
    \/ StatusRejects
    \/ HandleJjErrorResolves
    \/ PickAction
    \/ CommitCall
    \/ CommitResolves
    \/ CommitRejects
    \/ CommitFinally
    \/ CommitReturns

SpecScm == InitScm /\ [][NextScm]_vars

\* --- toResourceState, called the way JjScmProvider.refresh calls it ---

Statuses == {"modified", "added", "deleted", "moved"}

\* paths a FileStatus may carry: relative ones and absolute ones
StatePaths == TokenStrings({<<"/">>, <<"a">>}, MaxPathTokens)

\* resourceStates.push(toResourceState(root, file))
CallToResourceState ==
    /\ statePc = "call"
    /\ stateResult' = toResourceState(JsString(root), JsFile(stateFile))
    /\ statePc' = "done"
    /\ UNCHANGED <<stateFile, parseVars, execVars, facadeVars, scmVars, treeVars,
                   debounceVars, activateVars>>

InitState ==
    /\ ParserOff
    /\ ExecOff
    /\ ScmOff
    /\ root \in Roots
    /\ method = "none"
    /\ arg = <<>>
    /\ facadePc = "off"
    /\ spawned = <<>>
    /\ caught = NoError
    /\ facadeResult = NoExecResult
    /\ errorsLogged = <<>>
    /\ stateFile \in {FileStatus(p, s) : p \in StatePaths, s \in Statuses}
    /\ statePc = "call"
    /\ stateResult = NoExecResult
    /\ TreeOff
    /\ DebounceOff
    /\ ActivateOff

NextState == CallToResourceState

SpecState == InitState /\ [][NextState]_vars

\* --- JjTreeDataProvider: getChildren() calls that overlap ---

\* getChildren() with no element, up to `await this.getStatus()`
GetChildren ==
    /\ treePc = "on"
    /\ Len(childrenCalls) < MaxTreeCalls
    /\ IF getStatusStarts(cachedStatus)
       THEN /\ statusPromises' =
                   Append(statusPromises,
                          [settled |-> FALSE, outcome |-> NoExecResult, failed |-> FALSE])
            /\ cachedStatus' = Len(statusPromises) + 1
            /\ statusSinceRefresh' = statusSinceRefresh + 1
       ELSE UNCHANGED <<statusPromises, cachedStatus, statusSinceRefresh>>
    /\ childrenCalls' =
           Append(childrenCalls,
                  [pc |-> "awaitStatus", promise |-> cachedStatus', result |-> <<>>])
    /\ UNCHANGED <<treePc, parseVars, execVars, facadeVars, scmVars, stateVars,
                   debounceVars, activateVars>>

\* getChildren(element) for an item the view was given before
GetChildrenOf ==
    /\ treePc = "on"
    /\ Len(childrenCalls) < MaxTreeCalls
    /\ \E c \in 1..Len(childrenCalls) :
          /\ childrenCalls[c].pc = "done"
          /\ \E i \in 1..Len(childrenCalls[c].result) :
                childrenCalls' =
                    Append(childrenCalls,
                           [pc |-> "done", promise |-> 0,
                            result |-> childrenOf(childrenCalls[c].result[i])])
    /\ UNCHANGED <<treePc, cachedStatus, statusPromises, statusSinceRefresh,
                   parseVars, execVars, facadeVars, scmVars, stateVars,
                   debounceVars, activateVars>>

\* repo.status() resolves
TreeStatusResolves ==
    /\ treePc = "on"
    /\ \E p \in 1..Len(statusPromises), summary \in ScmSummaries :
          /\ ~statusPromises[p].settled
          /\ statusPromises' =
                 [statusPromises EXCEPT ![p] =
                     [settled |-> TRUE, outcome |-> Return(summary), failed |-> FALSE]]
    /\ UNCHANGED <<treePc, cachedStatus, childrenCalls, statusSinceRefresh,
                   parseVars, execVars, facadeVars, scmVars, stateVars,
                   debounceVars, activateVars>>

\* repo.status() rejects: the .catch handler of getStatus() runs
TreeStatusRejects ==
    /\ treePc = "on"
    /\ \E p \in 1..Len(statusPromises) :
          /\ ~statusPromises[p].settled
          /\ statusPromises' =
                 [statusPromises EXCEPT ![p] =
                     [settled |-> TRUE,
                      outcome |-> getStatusCatch(Error(<<>>)),
                      failed |-> TRUE]]
    /\ UNCHANGED <<treePc, cachedStatus, childrenCalls, statusSinceRefresh,
                   parseVars, execVars, facadeVars, scmVars, stateVars,
                   debounceVars, activateVars>>

\* getFileGroups() after `await this.getStatus()`
GetFileGroupsResume ==
    /\ treePc = "on"
    /\ \E c \in 1..Len(childrenCalls) :
          /\ childrenCalls[c].pc = "awaitStatus"
          /\ statusPromises[childrenCalls[c].promise].settled
          /\ childrenCalls' =
                 [childrenCalls EXCEPT
                     ![c].pc = "done",
                     ![c].result =
                         getFileGroups(statusPromises[childrenCalls[c].promise].outcome)]
    /\ UNCHANGED <<treePc, cachedStatus, statusPromises, statusSinceRefresh,
                   parseVars, execVars, facadeVars, scmVars, stateVars,
                   debounceVars, activateVars>>

\* refresh()
TreeRefresh ==
    /\ treePc = "on"
    /\ cachedStatus' = refreshCache(cachedStatus)
    /\ statusSinceRefresh' = 0
    /\ UNCHANGED <<treePc, statusPromises, childrenCalls, parseVars, execVars,
                   facadeVars, scmVars, stateVars,
                   debounceVars, activateVars>>

\* new JjTreeDataProvider(repo)
InitTree ==
    /\ ParserOff
    /\ ExecOff
    /\ FacadeOff
    /\ ScmOff
    /\ StateOff
    /\ DebounceOff
    /\ ActivateOff
    /\ treePc = "on"
    /\ cachedStatus = 0
    /\ statusPromises = <<>>
    /\ childrenCalls = <<>>
    /\ statusSinceRefresh = 0

NextTree ==
    \/ GetChildren
    \/ GetChildrenOf
    \/ TreeStatusResolves
    \/ TreeStatusRejects
    \/ GetFileGroupsResume
    \/ TreeRefresh

SpecTree == InitTree /\ [][NextTree]_vars

\* --- debounce(() => treeDataProvider.refresh(), 1000) on file events ---

\* the delay createJjCommitView passes to debounce, in milliseconds
wait == 1000

\* bug variant: the pending timer is left running
clearTimeout_Keeps(active, handle) == active

\* clearTimeout(timeout): timers are named by the time they are due at
clearTimeout(active, handle) == active \ {handle}

\* setTimeout(callback, delay) called at time t: the handle of the timer
setTimeout(t, delay) == t + delay

\* a timer is due: Node runs it before it hands out later events
TimerDue == \E due \in timers : due <= now

\* the file watcher reports a change, a creation or a deletion:
\* refreshDebounced()
FileEvent ==
    /\ debouncePc = "on"
    /\ ~TimerDue
    /\ now + wait <= MaxTime
    /\ timeout' = setTimeout(now, wait)
    /\ timers' = clearTimeout(timers, timeout) \cup {timeout'}
    /\ lastEvent' = now
    /\ firedSinceEvent' = 0
    /\ UNCHANGED <<debouncePc, now, parseVars, execVars, facadeVars, scmVars,
                   stateVars, treeVars,
                   activateVars>>

\* a timer runs its callback: func(...args), i.e. treeDataProvider.refresh()
TimerFires ==
    /\ debouncePc = "on"
    /\ \E due \in timers :
          /\ due <= now
          /\ timers' = timers \ {due}
    /\ firedSinceEvent' = firedSinceEvent + 1
    /\ cachedStatus' = refreshCache(cachedStatus)
    /\ statusSinceRefresh' = 0
    /\ UNCHANGED <<debouncePc, now, timeout, lastEvent, treePc, statusPromises,
                   childrenCalls, parseVars, execVars, facadeVars, scmVars, stateVars,
                   activateVars>>

\* time passes, up to the moment the next timer is due
AdvanceTime ==
    /\ debouncePc = "on"
    /\ ~TimerDue
    /\ now < MaxTime
    /\ \E t \in (now + 1)..Min({now + Quantum, MaxTime}) :
          /\ \A due \in timers : t <= due
          /\ t = now + Quantum \/ t = MaxTime \/ t \in timers
          /\ now' = t
    /\ UNCHANGED <<debouncePc, timers, timeout, lastEvent, firedSinceEvent,
                   parseVars, execVars, facadeVars, scmVars, stateVars, treeVars,
                   activateVars>>

\* createJjCommitView(repo) has returned: the watcher is listening and no
\* event has arrived
InitDebounce ==
    /\ ParserOff
    /\ ExecOff
    /\ FacadeOff
    /\ ScmOff
    /\ StateOff
    /\ ActivateOff
    /\ treePc = "on"
    /\ cachedStatus = 0
    /\ statusPromises = <<>>
    /\ childrenCalls = <<>>
    /\ statusSinceRefresh = 0
    /\ debouncePc = "on"
    /\ now = 0
    /\ timers = {}
    /\ timeout = 0
    /\ lastEvent = 0
    /\ firedSinceEvent = 0

NextDebounce ==
    \/ FileEvent
    \/ TimerFires
    \/ AdvanceTime

\* time passes and Node runs the timers that are due
SpecDebounce ==
    /\ InitDebounce
    /\ [][NextDebounce]_vars
    /\ WF_vars(AdvanceTime)
    /\ WF_vars(TimerFires)

\* --- activate(context) ---

\* the commands the constructor of JjScmProvider registers
ScmProviderCommands == <<"jj-vsc.commit", "jj-vsc.toggleAutoRefresh">>

\* the commands createJjCommitView registers
CommitViewCommands ==
    <<"jj-vsc.diffFile", "jj-vsc.show_diff", "jj-vsc.refresh", "jj-vsc.merge_branch">>

\* the commands activate registers itself, after the providers are built
ActivateCommands ==
    <<"jj-vsc.refresh", "jj-vsc.show_diff", "jj-vsc.show_history",
      "jj-vsc.merge_branch", "jj-vsc.helloWorld">>

\* vscode.commands.registerCommand(id, handler): an identifier that is
\* registered already makes the call throw
registerCommand(calls, id) ==
    [calls |-> Append(calls, id),
     threw |-> \E i \in 1..Len(calls) : calls[i] = id]

RECURSIVE registerCommands(_, _)
\* the registerCommand calls of one constructor, up to the first that throws
registerCommands(calls, ids) ==
    IF Len(ids) = 0 THEN [calls |-> calls, threw |-> FALSE]
    ELSE LET made == registerCommand(calls, Head(ids))
         IN  IF made.threw THEN made ELSE registerCommands(made.calls, Tail(ids))

\* the failures jjRepo.verify() may end with
VerifyFailures(rootDir) ==
    {JjExecutionError(message, <<"j", "j">>, <<"root">>, None(<<>>), None(0), NoErr) :
        message \in {MsgNotInstalled, MsgTimedOut, MsgFolder(rootDir)}}

\* err.message.includes('not installed')
NotInstalled == <<"n", "o", "t", " ", "i", "n", "s", "t", "a", "l", "l", "e", "d">>

\* bug variant: the catch block of activate does not return, activate
\* goes on
activateCatchEnds_FallsThrough(pc) == "awaitSetContextTrue"

\* the catch block of activate ends with `return`
activateCatchEnds(pc) == "done"

\* activate up to its first await or return
Activate ==
    /\ activatePc = "start"
    /\ IF rootPath = <<>>
       THEN /\ shown' = Append(shown, "No workspace folder found.")
            /\ activatePc' = "done"
            /\ UNCHANGED <<contexts, root>>
       ELSE IF ~jjExists
       THEN /\ contexts' = Append(contexts, FALSE)
            /\ activatePc' = "awaitSetContextNoJj"
            /\ UNCHANGED <<shown, root>>
       ELSE /\ root' = rootPath
            /\ activatePc' = "awaitVerify"
            /\ UNCHANGED <<shown, contexts>>
    /\ UNCHANGED <<rootPath, jjExists, verifyResult, constructed, registrations,
                   nextCommand, method, arg, facadePc, spawned, caught, facadeResult,
                   errorsLogged, parseVars, execVars, scmVars, stateVars, treeVars,
                   debounceVars>>

\* jjRepo.verify() resolves: setContext('jj-vsc.isJjRepository', true)
VerifyResolves ==
    /\ activatePc = "awaitVerify"
    /\ verifyResult' = Return(<<>>)
    /\ contexts' = Append(contexts, TRUE)
    /\ activatePc' = "awaitSetContextTrue"
    /\ UNCHANGED <<rootPath, jjExists, constructed, registrations,
                   nextCommand, shown, parseVars, execVars, facadeVars, scmVars,
                   stateVars, treeVars, debounceVars>>

\* jjRepo.verify() rejects: setContext('jj-vsc.isJjRepository', false)
VerifyRejects ==
    /\ activatePc = "awaitVerify"
    /\ \E err \in VerifyFailures(root) : verifyResult' = Throw(err)
    /\ contexts' = Append(contexts, FALSE)
    /\ activatePc' = "awaitSetContextFailed"
    /\ UNCHANGED <<rootPath, jjExists, constructed, registrations, nextCommand,
                   shown, parseVars, execVars, facadeVars, scmVars, stateVars,
                   treeVars, debounceVars>>

\* an awaited setContext command resolves: activate returns, or reports the
\* failure of verify(), or goes on to build the providers
SetContextResolves ==
    /\ activatePc \in {"awaitSetContextNoJj", "awaitSetContextFailed",
                       "awaitSetContextTrue"}
    /\ IF activatePc = "awaitSetContextNoJj"
       THEN /\ activatePc' = "done"
            /\ UNCHANGED shown
       ELSE IF activatePc = "awaitSetContextTrue"
       THEN /\ activatePc' = "newJjScmProvider"
            /\ UNCHANGED shown
       ELSE IF verifyResult.error.type # "JjExecutionError"
       THEN /\ shown' = Append(shown, "Failed to initialize JuJutsu extension")
            /\ activatePc' = activateCatchEnds(activatePc)
       ELSE IF Includes(verifyResult.error.message, NotInstalled)
       THEN /\ shown' = Append(shown, "JuJutsu (jj) is not installed or not found in PATH.")
            /\ activatePc' = "awaitShowErrorMessage"
       ELSE /\ shown' = Append(shown, "JuJutsu Error")
            /\ activatePc' = activateCatchEnds(activatePc)
    /\ UNCHANGED <<rootPath, jjExists, verifyResult, contexts, constructed,
                   registrations, nextCommand, parseVars, execVars, facadeVars,
                   scmVars, stateVars, treeVars, debounceVars>>

\* the user answers the 'not installed' message: 'Learn More' opens the
\* project page; activate returns
ShowErrorMessageResolves ==
    /\ activatePc = "awaitShowErrorMessage"
    /\ \E choice \in {"Learn More", "dismissed"} :
          shown' = IF choice = "Learn More"
                   THEN Append(shown, "openExternal")
                   ELSE shown
    /\ activatePc' = activateCatchEnds(activatePc)
    /\ UNCHANGED <<rootPath, jjExists, verifyResult, contexts, constructed,
                   registrations, nextCommand, parseVars, execVars, facadeVars,
                   scmVars, stateVars, treeVars, debounceVars>>

\* new JjScmProvider(jjRepo): its commands are registered and its first
\* refresh() is started
NewJjScmProvider ==
    /\ activatePc = "newJjScmProvider"
    /\ LET made == registerCommands(registrations, ScmProviderCommands)
           c == refreshCall(FALSE, FALSE, "constructor")
       IN  /\ registrations' = made.calls
           /\ IF made.threw
              THEN /\ activatePc' = "threw"
                   /\ UNCHANGED <<constructed, scmVars>>
              ELSE /\ activatePc' = "createJjCommitView"
                   /\ constructed' = Append(constructed, "JjScmProvider")
                   /\ scmPc' = "on"
                   /\ autoRefreshEnabled' = TRUE
                   /\ tasks' = <<c.task>>
                   /\ refreshing' = c.refreshing
                   /\ statusStarted' = c.calls
                   /\ UNCHANGED <<lastRefreshError, resourceStates, scmCount,
                                  scmLogged>>
    /\ UNCHANGED <<rootPath, jjExists, verifyResult, contexts, nextCommand, shown,
                   parseVars, execVars, facadeVars, stateVars, treeVars, debounceVars>>

\* createJjCommitView(jjRepo): the tree provider, the view, its commands
\* and the debounced file watcher
CreateJjCommitView ==
    /\ activatePc = "createJjCommitView"
    /\ LET made == registerCommands(registrations, CommitViewCommands)
       IN  /\ registrations' = made.calls
           /\ IF made.threw
              THEN /\ activatePc' = "threw"
                   /\ UNCHANGED <<constructed, nextCommand, treePc, debouncePc>>
              ELSE /\ activatePc' = "registerCommand"
                   /\ constructed' = Append(constructed, "createJjCommitView")
                   /\ nextCommand' = 1
                   /\ treePc' = "on"
                   /\ debouncePc' = "on"
    /\ UNCHANGED <<rootPath, jjExists, verifyResult, contexts, shown, cachedStatus,
                   statusPromises, childrenCalls, statusSinceRefresh, now, timers,
                   timeout, lastEvent, firedSinceEvent, parseVars, execVars,
                   facadeVars, scmVars, stateVars>>

\* the next vscode.commands.registerCommand call of activate itself
RegisterCommand ==
    /\ activatePc = "registerCommand"
    /\ LET made == registerCommand(registrations, ActivateCommands[nextCommand])
       IN  /\ registrations' = made.calls
           /\ IF made.threw
              THEN /\ activatePc' = "threw"
                   /\ UNCHANGED nextCommand
              ELSE IF nextCommand = Len(ActivateCommands)
              THEN /\ activatePc' = "done"
                   /\ UNCHANGED nextCommand
              ELSE /\ activatePc' = "registerCommand"
                   /\ nextCommand' = nextCommand + 1
    /\ UNCHANGED <<rootPath, jjExists, verifyResult, contexts, constructed, shown,
                   parseVars, execVars, facadeVars, scmVars, stateVars, treeVars,
                   debounceVars>>

\* activate has ended and the provider it built is at work
Live == activatePc \in {"done", "threw"} /\ scmPc = "on" /\ Len(tasks) <= MaxLiveCalls

\* the extension host calls activate: the workspace may have no folder,
\* and a folder may have no .jj directory
InitActivate ==
    /\ ParserOff
    /\ ExecOff
    /\ FacadeOff
    /\ ScmOff
    /\ StateOff
    /\ TreeOff
    /\ DebounceOff
    /\ activatePc = "start"
    /\ rootPath \in {<<>>} \cup Roots
    /\ jjExists \in BOOLEAN
    /\ verifyResult = NoExecResult
    /\ contexts = <<>>
    /\ constructed = <<>>
    /\ registrations = <<>>
    /\ nextCommand = 0
    /\ shown = <<>>

NextActivate ==
    \/ Activate
    \/ VerifyResolves
    \/ VerifyRejects
    \/ SetContextResolves
    \/ ShowErrorMessageResolves
    \/ NewJjScmProvider
    \/ CreateJjCommitView
    \/ RegisterCommand
    \/ (Live /\ NextScm)

SpecActivate == InitActivate /\ [][NextActivate]_vars

\* ------------------------------------------------------------------
\* Properties of the status parser
\* ------------------------------------------------------------------
Returned == parsePc = "done" /\ parseResult.kind = "return"

\* the status code of each group
CodeOf(group) ==
    CASE group = "added" -> "A" [] group = "deleted" -> "D"
      [] group = "modified" -> "M" [] group = "moved" -> "R"

\* a line that is neither blank nor an echo of the command
IsDataLine(rawLine) == Trim(rawLine) # <<>> /\ ~StartsWith(Trim(rawLine), JjEcho)

\* the path field of a data line: what follows the status code, trimmed
PathField(rawLine) == Trim(Tail(Trim(rawLine)))

PathsOf(entries) == [i \in 1..Len(entries) |-> entries[i].path]

\* C1: parseStatusOutput is total: for every input (empty, malformed, any
\* mix of status codes, braces and arrows) the call returns, never raises,
\* and what it returns is a StatusSummary: four groups of entries, each
\* entry a path string tagged with the status of its group.
C1_ParseIsTotal ==
    parsePc = "done" =>
        /\ parseResult.kind = "return"
        /\ DOMAIN parseResult.value = Groups
        /\ \A g \in Groups :
              \A i \in 1..Len(parseResult.value[g]) :
                  /\ parseResult.value[g][i].status = g
                  /\ parseResult.value[g][i].path \in Seq(WhiteSpace \cup {"A", "D", "M", "R", "p", "j", "a", "b", "{", "}", "=", ">"})

\* an input with a line of unknown status code next to a recognized line
C1_Witness ==
    /\ Returned
    /\ \E i, j \in 1..Len(SplitLines(output)) :
          /\ IsDataLine(SplitLines(output)[i])
          /\ Trim(SplitLines(output)[i])[1] \notin {"A", "D", "M", "R"}
          /\ IsDataLine(SplitLines(output)[j])
          /\ Trim(SplitLines(output)[j])[1] \in {"A", "D", "M", "R"}

\* the data lines of the input whose first character is `code`, in input order
LinesWithCode(code) ==
    SelectSeq(SplitLines(output), LAMBDA l : IsDataLine(l) /\ Trim(l)[1] = code)

\* C2: the four groups partition the recognized lines: every non-blank,
\* non-echo line whose first character is A, D, M or R gives exactly one
\* entry, in the group of its code and in no other, the entries of a group
\* stand in input-line order, and a line with any other first character
\* gives no entry (lines are taken trimmed, as the parser reads them).
C2_GroupsPartitionLines ==
    parsePc = "done" =>
        /\ parseResult.kind = "return"
        /\ \A g \in Groups :
              LET ls == LinesWithCode(CodeOf(g))
                  es == parseResult.value[g]
              IN  /\ Len(es) = Len(ls)
                  /\ \A i \in 1..Len(es) : es[i].status = g
                  /\ g # "moved" => PathsOf(es) = [i \in 1..Len(ls) |-> PathField(ls[i])]
                  /\ g = "moved" =>
                        PathsOf(es) = [i \in 1..Len(ls) |-> extractNewPathFromRename(PathField(ls[i]))]

\* two entries of one group with different paths, and a rename line
C2_Witness ==
    /\ Returned
    /\ \E g \in Groups :
          /\ Len(parseResult.value[g]) >= 2
          /\ parseResult.value[g][1].path # parseResult.value[g][2].path
    /\ Len(SplitLines(output)) >= 3

\* the path field of the single rename line of SpecRename
RenameField == PathField(output)

MovedPath == parseResult.value.moved[1].path

OneMoved == Returned /\ Len(parseResult.value.moved) = 1

\* the text after the first "=>" of s (s holds one)
AfterFirstArrow(s) ==
    LET at == Min({k \in 1..(Len(s) - 1) : s[k] = "=" /\ s[k + 1] = ">"})
    IN  SubSeq(s, at + 2, Len(s))

HasArrow(s) == \E k \in 1..(Len(s) - 1) : s[k] = "=" /\ s[k + 1] = ">"

\* the field reads prefix{inner}suffix, the braces at positions a < b:
\* a is its first "{" and b its first "}"
BracedAt(f, a, b) ==
    /\ a < b /\ f[a] = "{" /\ f[b] = "}"
    /\ \A k \in 1..(a - 1) : f[k] \notin {"{", "}"}
    /\ \A k \in (a + 1)..(b - 1) : f[k] # "}"

C4_PlainRename ==
    parsePc = "done" =>
        ((\A k \in 1..Len(RenameField) : RenameField[k] \notin {"{", "}"}) =>
            /\ OneMoved
            /\ HasArrow(RenameField) => MovedPath = Trim(AfterFirstArrow(RenameField))
            /\ ~HasArrow(RenameField) => MovedPath = RenameField)

\* a plain rename "old => new" whose new path is not empty
C4_Witness ==
    /\ OneMoved
    /\ \A k \in 1..Len(RenameField) : RenameField[k] \notin {"{", "}"}
    /\ HasArrow(RenameField)
    /\ RenameField[1] # "="
    /\ MovedPath # <<>>

\* C5: rename parsing never yields an empty string unless the path field
\* was itself empty: for every R line with a non-empty path field (also
\* one ending in "=>" or of the form "{old => }") the moved path is
\* non-empty.
C5_RenameNeverEmpty ==
    parsePc = "done" =>
        (RenameField # <<>> => OneMoved /\ MovedPath # <<>>)

\* the text without the CR of every CRLF pair
RECURSIVE CrlfToLf(_)
CrlfToLf(s) ==
    IF s = <<>> THEN <<>>
    ELSE IF Len(s) >= 2 /\ s[1] = "\r" /\ s[2] = "\n" THEN CrlfToLf(Tail(s))
    ELSE <<Head(s)>> \o CrlfToLf(Tail(s))

RECURSIVE JoinLf(_)
JoinLf(lines) ==
    IF lines = <<>> THEN <<>>
    ELSE IF Len(lines) = 1 THEN lines[1]
    ELSE lines[1] \o <<"\n">> \o JoinLf(Tail(lines))

\* the text without its blank lines and its lines that begin with "jj "
WithoutSkippedLines(s) == JoinLf(SelectSeq(SplitNl(s), IsDataLine))

\* C6: parseStatusOutput splits on LF and CRLF alike and skips every blank
\* line and every line that begins with "jj ": the result is the same with
\* every CRLF written as LF, those lines give no entry, and the result is
\* the same with those lines taken out of the input.
C6_LineSplittingAndSkipping ==
    parsePc = "done" =>
        /\ parseResult = parseStatusOutput(CrlfToLf(output))
        /\ parseResult = parseStatusOutput(WithoutSkippedLines(output))
        /\ \A g \in Groups :
              Len(parseResult.value[g]) =
                  Cardinality({i \in 1..Len(SplitNl(output)) :
                                  /\ IsDataLine(SplitNl(output)[i])
                                  /\ Trim(SplitNl(output)[i])[1] = CodeOf(g)})

\* an input with a CRLF line end and a skipped echo line between entries
C6_Witness ==
    /\ Returned
    /\ Includes(output, <<"\r", "\n">>)
    /\ \E i \in 1..Len(SplitNl(output)) : StartsWith(Trim(SplitNl(output)[i]), JjEcho)
    /\ \E g \in Groups : Len(parseResult.value[g]) >= 1

\* ------------------------------------------------------------------
\* Properties of execJj
\* ------------------------------------------------------------------
\* the jj process ran to its end and left a non-zero exit code
NonZeroExit == procEvent = "exit" /\ proc.settled = "rejected"

Occurs(pat, s) ==
    \E i \in 1..(Len(s) - Len(pat) + 1) : SubSeq(s, i, i + Len(pat) - 1) = pat

\* the ordered table of stderr patterns and messages
MessageTable ==
    << [pattern |-> NoSuchRevset,           message |-> MsgInvalidRevision],
       [pattern |-> ConcurrentModification, message |-> MsgModified],
       [pattern |-> PermissionDenied,       message |-> MsgPermission],
       [pattern |-> NotAValidRepo,          message |-> MsgNotRepo] >>

\* a line without its leading white space
DropLeadingSpace(l) ==
    SubSeq(l, Min({i \in 1..Len(l) : l[i] \notin WhiteSpace}), Len(l))

\* C7: on a non-zero numeric exit code the message of the error follows an
\* ordered, first-match-wins table over stderr ("No such revset", then
\* "Concurrent modification", then "Permission denied", then "not a valid
\* Jujutsu repository"); if no pattern occurs it is the first non-empty
\* line of stderr (the first line with text, from its first character that
\* is no white space; white space at the very end of stderr is dropped
\* too); if stderr holds no text it is "... failed with exit code N". The
\* error always carries that exit code and the stderr text.
C7_ExitMessageTable ==
    (execPc = "done" /\ NonZeroExit) =>
        LET stderr   == proc.stderr
            code     == proc.err.code.n
            e        == execResult.error
            matches  == {i \in 1..Len(MessageTable) : Occurs(MessageTable[i].pattern, stderr)}
            lines    == SplitNl(stderr)
            nonBlank == {i \in 1..Len(lines) : Trim(lines[i]) # <<>>}
        IN  /\ execResult.kind = "throw"
            /\ e.exitCode = Some(code)
            /\ e.stderr = Some(stderr)
            /\ matches # {} => e.message = MessageTable[Min(matches)].message
            /\ (matches = {} /\ nonBlank # {}) =>
                  \/ e.message = DropLeadingSpace(lines[Min(nonBlank)])
                  \/ /\ e.message = Trim(lines[Min(nonBlank)])
                     /\ Min(nonBlank) = Max(nonBlank)
            /\ (matches = {} /\ nonBlank = {}) =>
                  e.message = MsgExitCodePrefix \o NumToString(code)

\* stderr names a concurrent modification first and a missing revset
\* after it: the table order, not the text order, picks the message
C7_Witness ==
    /\ execPc = "done"
    /\ NonZeroExit
    /\ Occurs(NoSuchRevset, proc.stderr)
    /\ Occurs(ConcurrentModification, proc.stderr)
    /\ IndexOf(proc.stderr, ConcurrentModification) < IndexOf(proc.stderr, NoSuchRevset)
    /\ execResult.error.message = MsgInvalidRevision

\* C8: on exit code zero execJj returns the captured stdout (trimmed, as
\* it returns every output) whether or not stderr is empty: text on stderr
\* is only logged as one warning and never makes the call fail.
C8_ZeroExitReturnsStdout ==
    (execPc = "done" /\ procEvent = "exit" /\ proc.settled = "resolved") =>
        /\ execResult.kind = "return"
        /\ execResult.value = Trim(proc.stdout)
        /\ execResult.error = NoError
        /\ Trim(proc.stderr) # <<>> => warnings = <<WarnPrefix \o Trim(proc.stderr)>>
        /\ Trim(proc.stderr) = <<>> => warnings = <<>>

\* a zero exit with text on stderr and text on stdout
C8_Witness ==
    /\ execPc = "done"
    /\ procEvent = "exit"
    /\ proc.settled = "resolved"
    /\ Trim(proc.stderr) # <<>>
    /\ execResult.kind = "return"
    /\ execResult.value # <<>>

\* C9: every failure of execJj is a JjExecutionError that keeps the whole
\* failure context (command "jj", exactly the args passed, the underlying
\* error as originalError), no other error type escapes, and a failure
\* that is neither not-found, timeout nor a numeric non-zero exit is
\* reported as an unknown error wrapping the original cause.
C9_FailuresKeepContext ==
    execPc = "done" =>
        /\ proc.settled = "rejected" => execResult.kind = "throw"
        /\ execResult.kind = "throw" =>
              LET e == execResult.error
              IN  /\ e.type = "JjExecutionError"
                  /\ e.command = "jj"
                  /\ e.args = execArgs
                  /\ e.originalError = proc.err
                  /\ procEvent \notin {"notFound", "timeout", "exit"} =>
                        /\ e.message = (IF proc.err.isError THEN proc.err.message
                                        ELSE MsgUnknown)
                        /\ e.stderr = None(<<>>)
                        /\ e.exitCode = None(0)

\* C10: a run that exceeds the 30-second timeout ends as a timeout
\* failure (a JjExecutionError whose message reports the timeout and which
\* carries no exit code; never a success, a not-found or a non-zero-exit
\* failure), and a run that did not exceed the timeout is never reported
\* as a timeout.
C10_TimeoutReportedIffTimedOut ==
    execPc = "done" =>
        /\ procEvent = "timeout" =>
              /\ execResult.kind = "throw"
              /\ execResult.error.type = "JjExecutionError"
              /\ execResult.error.message = MsgTimedOut
              /\ execResult.error.exitCode = None(0)
        /\ procEvent # "timeout" =>
              ~(execResult.kind = "throw" /\ execResult.error.message = MsgTimedOut)

\* ------------------------------------------------------------------
\* Properties of the repository facade
\* ------------------------------------------------------------------
\* the call of facade method m has ended
Ended(m) == facadePc = "done" /\ method = m

\* the call ended by returning
EndedWell(m) == Ended(m) /\ facadeResult.kind = "return"

\* the one execJj run of the call failed
RunFailed == execPc = "done" /\ execResult.kind = "throw"

\* path.isAbsolute(p) on POSIX
IsAbsolutePath(p) == Len(p) > 0 /\ p[1] = "/"

\* the summary parseStatusOutput made of the output of the diff run
ParsedDiff == parseStatusOutput(execResult.value).value

\* C11: every path status() returns is absolute; a repo-relative parsed
\* path comes back joined with the working-copy root, and a parsed path
\* that is already absolute comes back unchanged.
C11_StatusPathsAbsolute ==
    EndedWell("status") =>
        \A group \in Groups :
            /\ Len(facadeResult.value[group]) = Len(ParsedDiff[group])
            /\ \A i \in 1..Len(ParsedDiff[group]) :
                   LET parsedPath == ParsedDiff[group][i].path
                       returned   == facadeResult.value[group][i].path
                   IN  /\ IsAbsolutePath(returned)
                       /\ IF IsAbsolutePath(parsedPath)
                          THEN returned = parsedPath
                          ELSE returned = pathJoin(root, parsedPath)

\* every character of the text is white space (the empty text included)
AllWhiteSpace(text) == \A i \in 1..Len(text) : text[i] \in WhiteSpace

\* C12: commit(message) with an empty or all-whitespace message and
\* mergeBranch(name) with an empty or all-whitespace name fail at once with
\* a validation error (a plain Error naming the empty argument), and no
\* process is spawned.
C12_BlankArgumentFailsLocally ==
    (method \in {"commit", "mergeBranch"} /\ AllWhiteSpace(arg)) =>
        /\ facadePc = "done"
        /\ facadeResult.kind = "throw"
        /\ facadeResult.error.type = "Error"
        /\ facadeResult.error.message =
               (IF method = "commit" THEN MsgCommitEmpty ELSE MsgBranchEmpty)
        /\ Len(spawned) = 0
        /\ execPc = "off"

C12_Witness ==
    /\ Ended("commit")
    /\ Len(arg) = 2
    /\ AllWhiteSpace(arg)
    /\ facadeResult.kind = "throw"
    /\ Len(spawned) = 0

\* the stderr text an execution error carries ('' when it carries none)
StderrOfError(e) == IF e.stderr.def THEN e.stderr.v ELSE <<>>

\* C13: when the commit command fails with an execution error whose stderr
\* contains 'nothing to commit', commit() raises the plain error 'Nothing
\* to commit - no changes in working copy'; any other execution error of
\* the commit command is raised to the caller unchanged.
C13_NothingToCommit ==
    (Ended("commit") /\ RunFailed) =>
        /\ execResult.error.type = "JjExecutionError"
        /\ facadeResult.kind = "throw"
        /\ IF Occurs(NothingToCommit, StderrOfError(execResult.error))
           THEN facadeResult.error = Error(MsgNothingToCommit)
           ELSE facadeResult.error = execResult.error

C13_Witness ==
    /\ Ended("commit")
    /\ RunFailed
    /\ Occurs(NothingToCommit, StderrOfError(execResult.error))
    /\ facadeResult.kind = "throw"
    /\ facadeResult.error.type = "Error"

\* C14: verify() turns a failure of `jj root` whose stderr says the
\* directory is 'not a valid Jujutsu repository' into an execution error
\* whose message names the root folder ('The folder "<root>" is not a
\* JuJutsu repository'), and raises every other failure unchanged.
C14_VerifyNamesRootFolder ==
    (Ended("verify") /\ RunFailed) =>
        /\ facadeResult.kind = "throw"
        /\ IF Occurs(NotAValidRepo, StderrOfError(execResult.error))
           THEN /\ facadeResult.error.type = "JjExecutionError"
                /\ facadeResult.error.message = MsgFolder(root)
           ELSE facadeResult.error = execResult.error

BookmarkList == <<"bookmark", "list", "--no-pager">>

BranchList == <<"branch", "list", "--no-pager">>

\* this step spawns the legacy `branch list` command
LegacySpawn ==
    /\ Len(spawned') = Len(spawned) + 1
    /\ spawned'[Len(spawned')][1] = "branch"

\* C15: listBranches() runs the legacy `branch list` only after the primary
\* `bookmark list` has failed with stderr containing 'unrecognized
\* subcommand'; if the fallback succeeds its output is returned; if both
\* fail the error raised is the primary command's, not the fallback's; a
\* primary failure without that text is raised with no second spawn.
C15_ListBranchesFallback ==
    /\ [][LegacySpawn =>
            /\ method = "listBranches"
            /\ spawned = <<BookmarkList>>
            /\ RunFailed
            /\ Occurs(UnrecognizedSubcommand, StderrOfError(execResult.error))
            /\ caught' = execResult.error]_vars
    /\ [](Ended("listBranches") =>
            /\ Len(spawned) \in 1..2
            /\ spawned[1] = BookmarkList
            /\ (Len(spawned) = 2) =>
                   /\ spawned[2] = BranchList
                   /\ IF execResult.kind = "return"
                      THEN facadeResult = Return(branchLines(execResult.value))
                      ELSE /\ facadeResult = Throw(caught)
                           /\ caught.args = BookmarkList
                           /\ facadeResult.error # execResult.error
            /\ (Len(spawned) = 1 /\ RunFailed) =>
                   /\ ~Occurs(UnrecognizedSubcommand, StderrOfError(execResult.error))
                   /\ facadeResult = Throw(execResult.error))

C15_Witness ==
    /\ Ended("listBranches")
    /\ Len(spawned) = 2
    /\ RunFailed
    /\ facadeResult = Throw(caught)

DoesNotExist == <<"d", "o", "e", "s", " ", "n", "o", "t", " ", "e", "x", "i", "s", "t">>

RefreshAndTryAgain ==
    <<"r", "e", "f", "r", "e", "s", "h", " ", "a", "n", "d", " ", "t", "r", "y", " ", "a", "g", "a", "i", "n">>

\* C16: mergeBranch(name) with a valid name raises, for a failure whose
\* stderr contains 'No such revset', a plain error that mentions the name
\* and says it does not exist; else, for a failure whose stderr contains
\* 'Concurrent modification', a plain error that tells the caller to
\* refresh and try again; every other execution error is raised unchanged.
C16_MergeBranchErrors ==
    (Ended("mergeBranch") /\ RunFailed) =>
        /\ ~AllWhiteSpace(arg)
        /\ execResult.error.type = "JjExecutionError"
        /\ facadeResult.kind = "throw"
        /\ IF Occurs(NoSuchRevset, StderrOfError(execResult.error))
           THEN /\ facadeResult.error.type = "Error"
                /\ Occurs(<<"\"">> \o arg \o <<"\"">>, facadeResult.error.message)
                /\ Occurs(DoesNotExist, facadeResult.error.message)
           ELSE IF Occurs(ConcurrentModification, StderrOfError(execResult.error))
           THEN /\ facadeResult.error.type = "Error"
                /\ Occurs(RefreshAndTryAgain, facadeResult.error.message)
           ELSE facadeResult.error = execResult.error

C16_Witness ==
    /\ Ended("mergeBranch")
    /\ RunFailed
    /\ Occurs(NoSuchRevset, StderrOfError(execResult.error))
    /\ Occurs(ConcurrentModification, StderrOfError(execResult.error))
    /\ facadeResult.kind = "throw"
    /\ facadeResult.error.message = MsgNoBranch(arg)

\* the ways the process invocation can fail
FailureEvents == {"exit", "notFound", "timeout", "killed", "other"}

\* C17: log() returns the empty sequence on any failure of its process
\* invocation (not found, timeout, non-zero exit, unknown); it never
\* raises a failure to the caller.
C17_LogNeverFails ==
    Ended("log") =>
        /\ facadeResult.kind = "return"
        /\ RunFailed => (procEvent \in FailureEvents /\ Len(facadeResult.value) = 0)

C17_Witness ==
    /\ Ended("log")
    /\ RunFailed
    /\ procEvent = "timeout"
    /\ facadeResult.kind = "return"
    /\ Len(facadeResult.value) = 0

\* C18: whenever the process invocation of verify, status, diff, commit or
\* mergeBranch fails, the call fails too and returns no normal result;
\* status() and diff() raise the JjExecutionError of the runner.
C18_FailuresPropagate ==
    (facadePc = "done"
     /\ method \in {"verify", "status", "diff", "commit", "mergeBranch"}
     /\ RunFailed) =>
        /\ facadeResult.kind = "throw"
        /\ (method \in {"status", "diff"}) =>
               /\ facadeResult.error = execResult.error
               /\ facadeResult.error.type = "JjExecutionError"

C18_Witness ==
    /\ Ended("status")
    /\ RunFailed
    /\ procEvent = "exit"
    /\ facadeResult = Throw(execResult.error)

\* C19: every call of verify, status, diff, log, listBranches and
\* getPreviousFileContent, and of commit or mergeBranch with a valid
\* argument, spawns exactly one process.
C19_OneSpawnPerCall ==
    (facadePc = "done"
     /\ (method \in {"commit", "mergeBranch"} => ~AllWhiteSpace(arg))) =>
        Len(spawned) = 1

\* C20: getPreviousFileContent(path) returns the content of the file as
\* text; the only way it fails is with an execution error (raised when
\* the path did not exist in the previous revision).
C20_PreviousContent ==
    Ended("getPreviousFileContent") =>
        \/ facadeResult.kind = "return"
        \/ /\ facadeResult.kind = "throw"
           /\ facadeResult.error.type = "JjExecutionError"

\* the number of the line character i of text s is on
LineNo(s, i) == 1 + Cardinality({j \in 1..(i - 1) : s[j] = "\n"})

\* line k of text s, without its line end
LineOf(s, k) ==
    LET on == {i \in 1..Len(s) : s[i] # "\n" /\ LineNo(s, i) = k}
    IN  IF on = {} THEN <<>> ELSE SubSeq(s, Min(on), Max(on))

LineCount(s) == LineNo(s, Len(s) + 1)

\* the i-th smallest member of the set K of numbers
Nth(K, i) == CHOOSE k \in K : Cardinality({j \in K : j <= k}) = i

\* result lists, in order, line k of text s (made by Line) for each k in K
ListsLines(result, s, K, Line(_, _)) ==
    /\ Len(result) = Cardinality(K)
    /\ \A i \in 1..Len(result) : result[i] = Line(s, Nth(K, i))

TrimmedLineOf(s, k) == Trim(LineOf(s, k))

ResourcePath(rootDir, f) ==
    IF IsAbsolutePath(f.path) THEN f.path ELSE pathJoin(rootDir, f.path)

\* C22: toResourceState(root, file), called with the root first the way
\* refresh() and the unit test call it, returns a resource state whose URI
\* path is file.path when that is absolute and root joined with file.path
\* otherwise, and whose tooltip is file.status.
C22_ResourceStateOfFile ==
    statePc = "done" =>
        /\ stateResult.kind = "return"
        /\ stateResult.value.resourceUri = ResourcePath(root, stateFile)
        /\ stateResult.value.tooltip = stateFile.status

\* a refresh() call that has passed the guard and has not yet left its
\* finally block
Executing(t) == tasks[t].kind = "refresh" /\ tasks[t].pc \notin {"done", "skipped"}

\* the repo.status() calls that have not settled
InFlight == {t \in 1..Len(tasks) : tasks[t].pc = "awaitStatus"}

\* this step calls refresh(): the call is the last entry of tasks'
CallsRefresh ==
    /\ Len(tasks') = Len(tasks) + 1
    /\ tasks'[Len(tasks')].kind = "refresh"

\* C23: at most one repo.status() call of the provider is in flight; a
\* refresh() called while another refresh() is executing returns without
\* calling status(); and the refreshing flag is false whenever no
\* refresh() is executing, after success and after failure.
C23_OneStatusInFlight ==
    /\ [](scmPc = "on" =>
            /\ Cardinality(InFlight) <= 1
            /\ ((\A t \in 1..Len(tasks) : ~Executing(t)) => ~refreshing))
    /\ [][(CallsRefresh /\ \E t \in 1..Len(tasks) : Executing(t)) =>
            /\ tasks'[Len(tasks')].pc = "skipped"
            /\ statusStarted' = statusStarted]_vars

C23_Witness ==
    /\ \E t \in 1..Len(tasks), u \in 1..Len(tasks) :
          /\ t < u
          /\ tasks[t].pc = "awaitStatus"
          /\ tasks[u].kind = "refresh" /\ tasks[u].pc = "skipped"
    /\ \E t \in 1..Len(tasks) : tasks[t].kind = "refresh" /\ tasks[t].failed

\* this step is the answer 'Retry' to the dialog of a failed manual
\* refresh: the dialog closes and refresh() is called
PicksRetry ==
    /\ CallsRefresh
    /\ \E t \in 1..Len(tasks) : tasks[t].pc = "awaitDialog" /\ tasks'[t].pc = "done"

\* C24: when a manual refresh has failed and the user picks 'Retry' in the
\* error dialog, the provider starts a new repo.status() call.
C24_RetryStartsStatus ==
    [][PicksRetry =>
          /\ statusStarted' = statusStarted + 1
          /\ tasks'[Len(tasks')].pc = "awaitStatus"]_vars

\* C25: when commit() completes, after a successful or a failed commit
\* attempt, the provider has begun a repo.status() call after the moment
\* the attempt ended, also when another refresh was in flight then.
C25_StatusAfterCommit ==
    [][\A t \in 1..Len(tasks) :
          (tasks[t].kind = "commit" /\ tasks[t].pc = "awaitRefresh"
              /\ tasks'[t].pc = "done") =>
          statusStarted > tasks[t].mark]_vars

\* ------------------------------------------------------------------
\* Properties of the changes tree
\* ------------------------------------------------------------------

\* this step is a getChildren() call for the root level
CallsGetChildren ==
    /\ Len(childrenCalls') = Len(childrenCalls) + 1
    /\ childrenCalls'[Len(childrenCalls')].promise # 0

\* C26: between two refresh() calls the tree provider calls repo.status()
\* at most once, however many getChildren() calls arrive while that
\* status() is pending; and the first getChildren() after a refresh()
\* starts a fresh status() call.
C26_OneStatusPerRefresh ==
    /\ [](treePc = "on" => statusSinceRefresh <= 1)
    /\ [][(CallsGetChildren /\ statusSinceRefresh = 0) =>
            /\ Len(statusPromises') = Len(statusPromises) + 1
            /\ childrenCalls'[Len(childrenCalls')].promise = Len(statusPromises')
            /\ ~statusPromises'[Len(statusPromises')].settled]_vars

C26_Witness ==
    /\ Len(statusPromises) = 2
    /\ ~statusPromises[1].settled
    /\ \E c \in 1..Len(childrenCalls), d \in 1..Len(childrenCalls) :
          /\ c < d
          /\ childrenCalls[c].pc = "awaitStatus" /\ childrenCalls[c].promise = 1
          /\ childrenCalls[d].pc = "awaitStatus" /\ childrenCalls[d].promise = 1
    /\ childrenCalls[Len(childrenCalls)].promise = 2

\* C27: when repo.status() has failed, getChildren() with no element gives
\* the single item 'Failed to load changes'.
C27_FailedToLoadChanges ==
    \A c \in 1..Len(childrenCalls) :
        (/\ childrenCalls[c].pc = "done"
         /\ childrenCalls[c].promise # 0
         /\ statusPromises[childrenCalls[c].promise].failed) =>
        childrenCalls[c].result = <<ErrorItem>>

\* ------------------------------------------------------------------
\* Properties of the debounced refresh
\* ------------------------------------------------------------------

Built ==
    \/ constructed # <<>>
    \/ registrations # <<>>
    \/ scmPc = "on" \/ treePc = "on" \/ debouncePc = "on"
    \/ statusStarted > 0

\* C29: the providers are built, and so a status() call is made, only
\* after verify() has ended successfully; in a folder without a .jj
\* directory, or when verify() fails, nothing is built, no command is
\* registered and 'jj-vsc.isJjRepository' is set to false, never to true.
C29_ProvidersAfterVerify ==
    /\ Built => (jjExists /\ verifyResult.kind = "return")
    /\ (rootPath # <<>> /\ (~jjExists \/ verifyResult.kind = "throw")) =>
           /\ ~Built
           /\ \A i \in 1..Len(contexts) : contexts[i] = FALSE
           /\ activatePc # "start" => contexts = <<FALSE>>

C29_Witness ==
    /\ verifyResult.kind = "return"
    /\ constructed = <<"JjScmProvider", "createJjCommitView">>
    /\ contexts = <<TRUE>>
    /\ statusStarted >= 1

\* C30: in an activation that got past verify(), no command identifier is
\* handed to registerCommand twice, by createJjCommitView, by JjScmProvider
\* and by activate itself taken together.
C30_CommandsRegisteredOnce ==
    \A i \in 1..Len(registrations), j \in 1..Len(registrations) :
        i # j => registrations[i] # registrations[j]

====
